---------------------------- MODULE Spec2Model ----------------------------
(***************************************************************************)
(* Parametric geometry of the barn builder: the store's Building value and *)
(* the scene that Building, Wall, WallFeature and Roof render from it, and *)
(* the Wall and RainGutter components as functions of their props.         *)
(*                                                                         *)
(* Numbers.  The source computes in floating point; the model computes in  *)
(* exact arithmetic on integers that count 1/Unit of a length unit.  Unit  *)
(* is chosen so that every division the modelled code performs on the      *)
(* inputs drawn here is exact: /2 and /4 of a dimension, pitch/12, and the *)
(* decimal constants 0.1, 0.15, 0.2, 0.4.  A yaw is counted in quarter     *)
(* turns (Math.PI = 2).  A roof pitch angle atan2(rise, run) is kept as    *)
(* the right triangle [run, rise, hyp] whose angle it is.  Where a branch  *)
(* of the code depends on how a double was rounded (Wall's beam loop), the *)
(* double is carried next to the exact value.                              *)
(***************************************************************************)
EXTENDS Integers, Sequences, FiniteSets, TLC

Unit == 12 * 10

Ft(n) == n * Unit

Abs(n) == IF n < 0 THEN -n ELSE n

\* Math.PI in quarter turns.
MathPI == 2

\* The 0.1 offset WallFeature adds to the wall plane.
Clearance == Unit \div 10

\* The 0.4 depth of a feature's box.
FeatureDepth == (4 * Unit) \div 10

\* The 0.2 thickness of wall boxes, gable extrusions and roof panels.
Thickness == (2 * Unit) \div 10

(***************************************************************************)
(* Bounds of the model.                                                    *)
(***************************************************************************)
MaxFeatures == 1

MaxSkylights == 2

MaxSolverWidth == 8

MaxSolverPitch == 6

\* Wall widths 1..MaxWallWidth, in whole units.  Up to 59 the beam spacing
\* is a whole number of 1/Unit.
MaxWallWidth == 40

MaxGutterWidth == 40

(***************************************************************************)
(* Inputs.                                                                 *)
(***************************************************************************)
WallPositions == {"front", "back", "left", "right"}

Alignments == {"left", "center", "right"}

Widths == {Ft(24), Ft(30), Ft(40)}

Lengths == {Ft(20), Ft(60)}

Heights == {Ft(10), Ft(14)}

\* 0 is the flat roof, 4 the spec's scenario; 5, 9 and 16 give the panel a
\* rational length (the 5-12-13, 9-12-15 and 16-12-20 triangles).
Pitches == {0, 4, 5, 9, 16}

FeatureWidths == {Ft(4), Ft(10)}

FeatureHeights == {Ft(7)}

\* Below, at the start of, at the end of, and beyond the range that keeps a
\* feature on its wall.
FeatureXOffsets == {Ft(0 - 2), Ft(0), Ft(10), Ft(25)}

FeatureYOffsets == {Ft(3)}

SkylightXOffsets == {Ft(0 - 3), Ft(0), Ft(3)}

SkylightYOffsets == {Ft(0), Ft(2)}

VARIABLES
    dimensions,    \* Building.dimensions: [width, length, height, roofPitch]
    features,      \* Building.features: sequence of WallFeature records
    skylights,     \* Building.skylights: sequence of Skylight records
    featureScene,  \* what WallFeature renders, one entry per feature
    wallScene,     \* what Wall renders, one entry per wall position
    roofScene,     \* what Roof renders
    buildingScene, \* what Building itself derives
    solver,        \* the dimension and pitch solver applied to one input
    wallProbe,     \* Wall rendered from one set of props
    gutterProbe,   \* RainGutter rendered from one set of props
    memoProbe      \* mounted Roof, Wall and WallFeature with their useMemo cells

vars == <<dimensions, features, skylights, featureScene, wallScene,
          roofScene, buildingScene, solver, wallProbe, gutterProbe, memoProbe>>

(***************************************************************************)
(* Math.sqrt and Math.atan2.  Math.sqrt(n) is the pair of its radicand and *)
(* the integer part of the root; it is the exact root when value * value   *)
(* equals the radicand.  Math.atan2(y, x), for x >= 0, is the right        *)
(* triangle with legs x and y; the zero angle (y = 0) has run 1, rise 0.   *)
(***************************************************************************)
RECURSIVE SqrtSearch(_, _, _)
SqrtSearch(n, lo, hi) ==
    IF hi - lo <= 1 THEN lo
    ELSE LET mid == (lo + hi) \div 2
         IN IF mid * mid <= n THEN SqrtSearch(n, mid, hi)
                              ELSE SqrtSearch(n, lo, mid)

MathSqrt(n) == [radicand |-> n, value |-> SqrtSearch(n, 0, 46341)]

IsExact(root) == root.value * root.value = root.radicand

MathAtan2(y, x) ==
    IF y = 0 THEN [run |-> 1, rise |-> 0, hyp |-> MathSqrt(1)]
    ELSE [run |-> x, rise |-> y, hyp |-> MathSqrt((x * x) + (y * y))]

Negate(angle) == [angle EXCEPT !.rise = -angle.rise]

Max(a, b) == IF a >= b THEN a ELSE b

(***************************************************************************)
(* Numbers whose rounding decides control flow.  Wall's beam loop adds a   *)
(* quotient to a running position and compares the sum with a bound, so    *)
(* whether the last beam is pushed depends on how the double was rounded.  *)
(* A double is kept as sign and magnitude, the magnitude an integer count  *)
(* of 2^-52 written in two limbs (hi * 2^30 + lo).  Every double below 64  *)
(* that is at least 1, or a multiple of 1/2, is such a count.  Results are *)
(* rounded to 53 significant bits, ties to even, as IEEE 754 does.         *)
(***************************************************************************)
DblBase == 2^30

\* The hi limb of 0.5: 2^51 = 2^21 * 2^30.
DblHalf == 2^21

\* The hi limb of 2^53 / 2^30: magnitudes below it have at most 53 bits.
DblExactBelow == 2^23

\* The double of h/2 for an integer h.
DblFromHalves(h) == [neg |-> h < 0, hi |-> Abs(h) * DblHalf, lo |-> 0]

MagLess(a, b) == a.hi < b.hi \/ (a.hi = b.hi /\ a.lo < b.lo)

MagAdd(a, b) ==
    LET lo == a.lo + b.lo
    IN [hi |-> a.hi + b.hi + (lo \div DblBase), lo |-> lo % DblBase]

\* a - b for magnitudes with b <= a.
MagSub(a, b) ==
    IF a.lo >= b.lo THEN [hi |-> a.hi - b.hi, lo |-> a.lo - b.lo]
    ELSE [hi |-> a.hi - b.hi - 1, lo |-> a.lo + DblBase - b.lo]

\* The spacing of representable doubles around a magnitude, in counts.
RECURSIVE DblGrain(_, _)
DblGrain(hi, g) == IF hi < DblExactBelow * g THEN g ELSE DblGrain(hi, 2 * g)

\* Round the magnitude mag + num/den (0 <= num < den) to 53 significant
\* bits, to nearest, ties to even.
DblRound(mag, num, den) ==
    LET g    == DblGrain(mag.hi, 1)
        q    == mag.lo \div g
        rest == ((mag.lo % g) * den) + num
        up   == (2 * rest > g * den) \/ (2 * rest = g * den /\ q % 2 = 1)
        lo   == IF up THEN (q + 1) * g ELSE q * g
    IN IF lo = DblBase THEN [hi |-> mag.hi + 1, lo |-> 0]
                       ELSE [hi |-> mag.hi, lo |-> lo]

DblSigned(neg, mag) ==
    [neg |-> neg /\ (mag.hi # 0 \/ mag.lo # 0), hi |-> mag.hi, lo |-> mag.lo]

\* a + b in double arithmetic.
DblAdd(a, b) ==
    IF a.neg = b.neg THEN DblSigned(a.neg, DblRound(MagAdd(a, b), 0, 1))
    ELSE IF MagLess(a, b) THEN DblSigned(b.neg, DblRound(MagSub(b, a), 0, 1))
    ELSE DblSigned(a.neg, DblRound(MagSub(a, b), 0, 1))

\* a <= b on doubles.
DblLessEq(a, b) ==
    IF a.neg /\ ~b.neg THEN TRUE
    ELSE IF ~a.neg /\ b.neg THEN FALSE
    ELSE IF a.neg THEN ~MagLess(a, b)
    ELSE ~MagLess(b, a)

DblMax(a, b) == IF DblLessEq(a, b) THEN b ELSE a

\* (h/2) / n in double arithmetic, for integers h and n >= 1: long division
\* of |h| * 2^51 by n, thirty and then twice fifteen bits at a time.
DblDivide(h, n) ==
    LET top  == Abs(h) * DblHalf
        t1   == (top % n) * (2^15)
        t0   == (t1 % n) * (2^15)
        mag  == [hi |-> top \div n, lo |-> ((t1 \div n) * (2^15)) + (t0 \div n)]
    IN DblSigned(h < 0, DblRound(mag, t0 % n, n))

(***************************************************************************)
(* WallFeature: the position/rotation/dimensions useMemo.  AlongWall is    *)
(* the alignment branch of each wall's case: the coordinate along the wall *)
(* (world x on front/back, world z on left/right).                         *)
(***************************************************************************)
AlongWall_backCenterUnmirrored(pos, featureWidth, halfWidth, halfLength) ==
    CASE pos.wallPosition = "front" ->
            IF pos.alignment = "left" THEN -halfWidth + (featureWidth \div 2) + pos.xOffset
            ELSE IF pos.alignment = "right" THEN halfWidth - (featureWidth \div 2) - pos.xOffset
            ELSE pos.xOffset
      [] pos.wallPosition = "back" ->
            IF pos.alignment = "left" THEN halfWidth - (featureWidth \div 2) - pos.xOffset
            ELSE IF pos.alignment = "right" THEN -halfWidth + (featureWidth \div 2) + pos.xOffset
            ELSE pos.xOffset
      [] pos.wallPosition = "left" ->
            IF pos.alignment = "left" THEN -halfLength + (featureWidth \div 2) + pos.xOffset
            ELSE IF pos.alignment = "right" THEN halfLength - (featureWidth \div 2) - pos.xOffset
            ELSE pos.xOffset
      [] pos.wallPosition = "right" ->
            IF pos.alignment = "left" THEN halfLength - (featureWidth \div 2) - pos.xOffset
            ELSE IF pos.alignment = "right" THEN -halfLength + (featureWidth \div 2) + pos.xOffset
            ELSE -pos.xOffset

AlongWall_centerFromLeftEdge(pos, featureWidth, halfWidth, halfLength) ==
    CASE pos.wallPosition = "front" ->
            IF pos.alignment = "left" THEN -halfWidth + (featureWidth \div 2) + pos.xOffset
            ELSE IF pos.alignment = "right" THEN halfWidth - (featureWidth \div 2) - pos.xOffset
            ELSE -halfWidth + (featureWidth \div 2) + pos.xOffset
      [] pos.wallPosition = "back" ->
            IF pos.alignment = "left" THEN halfWidth - (featureWidth \div 2) - pos.xOffset
            ELSE IF pos.alignment = "right" THEN -halfWidth + (featureWidth \div 2) + pos.xOffset
            ELSE -pos.xOffset
      [] pos.wallPosition = "left" ->
            IF pos.alignment = "left" THEN -halfLength + (featureWidth \div 2) + pos.xOffset
            ELSE IF pos.alignment = "right" THEN halfLength - (featureWidth \div 2) - pos.xOffset
            ELSE pos.xOffset
      [] pos.wallPosition = "right" ->
            IF pos.alignment = "left" THEN halfLength - (featureWidth \div 2) - pos.xOffset
            ELSE IF pos.alignment = "right" THEN -halfLength + (featureWidth \div 2) + pos.xOffset
            ELSE -pos.xOffset

AlongWall_sideWallsUseWidth(pos, featureWidth, halfWidth, halfLength) ==
    CASE pos.wallPosition = "front" ->
            IF pos.alignment = "left" THEN -halfWidth + (featureWidth \div 2) + pos.xOffset
            ELSE IF pos.alignment = "right" THEN halfWidth - (featureWidth \div 2) - pos.xOffset
            ELSE pos.xOffset
      [] pos.wallPosition = "back" ->
            IF pos.alignment = "left" THEN halfWidth - (featureWidth \div 2) - pos.xOffset
            ELSE IF pos.alignment = "right" THEN -halfWidth + (featureWidth \div 2) + pos.xOffset
            ELSE -pos.xOffset
      [] pos.wallPosition = "left" ->
            IF pos.alignment = "left" THEN -halfWidth + (featureWidth \div 2) + pos.xOffset
            ELSE IF pos.alignment = "right" THEN halfWidth - (featureWidth \div 2) - pos.xOffset
            ELSE pos.xOffset
      [] pos.wallPosition = "right" ->
            IF pos.alignment = "left" THEN halfWidth - (featureWidth \div 2) - pos.xOffset
            ELSE IF pos.alignment = "right" THEN -halfWidth + (featureWidth \div 2) + pos.xOffset
            ELSE -pos.xOffset

AlongWall_rightWallAsLeftWall(pos, featureWidth, halfWidth, halfLength) ==
    CASE pos.wallPosition = "front" ->
            IF pos.alignment = "left" THEN -halfWidth + (featureWidth \div 2) + pos.xOffset
            ELSE IF pos.alignment = "right" THEN halfWidth - (featureWidth \div 2) - pos.xOffset
            ELSE pos.xOffset
      [] pos.wallPosition = "back" ->
            IF pos.alignment = "left" THEN halfWidth - (featureWidth \div 2) - pos.xOffset
            ELSE IF pos.alignment = "right" THEN -halfWidth + (featureWidth \div 2) + pos.xOffset
            ELSE -pos.xOffset
      [] pos.wallPosition \in {"left", "right"} ->
            IF pos.alignment = "left" THEN -halfLength + (featureWidth \div 2) + pos.xOffset
            ELSE IF pos.alignment = "right" THEN halfLength - (featureWidth \div 2) - pos.xOffset
            ELSE pos.xOffset

AlongWall(pos, featureWidth, halfWidth, halfLength) ==
    CASE pos.wallPosition = "front" ->
            IF pos.alignment = "left" THEN -halfWidth + (featureWidth \div 2) + pos.xOffset
            ELSE IF pos.alignment = "right" THEN halfWidth - (featureWidth \div 2) - pos.xOffset
            ELSE pos.xOffset
      [] pos.wallPosition = "back" ->
            IF pos.alignment = "left" THEN halfWidth - (featureWidth \div 2) - pos.xOffset
            ELSE IF pos.alignment = "right" THEN -halfWidth + (featureWidth \div 2) + pos.xOffset
            ELSE -pos.xOffset
      [] pos.wallPosition = "left" ->
            IF pos.alignment = "left" THEN -halfLength + (featureWidth \div 2) + pos.xOffset
            ELSE IF pos.alignment = "right" THEN halfLength - (featureWidth \div 2) - pos.xOffset
            ELSE pos.xOffset
      [] pos.wallPosition = "right" ->
            IF pos.alignment = "left" THEN halfLength - (featureWidth \div 2) - pos.xOffset
            ELSE IF pos.alignment = "right" THEN -halfLength + (featureWidth \div 2) + pos.xOffset
            ELSE -pos.xOffset

WallFeature(feature, buildingDimensions) ==
    LET halfWidth  == buildingDimensions.width \div 2
        halfLength == buildingDimensions.length \div 2
        pos   == feature.position
        along == AlongWall(pos, feature.width, halfWidth, halfLength)
        y == pos.yOffset + (feature.height \div 2)
        x == CASE pos.wallPosition = "front" -> along
               [] pos.wallPosition = "back" -> along
               [] pos.wallPosition = "left" -> -halfWidth - Clearance
               [] pos.wallPosition = "right" -> halfWidth + Clearance
        z == CASE pos.wallPosition = "front" -> halfLength + Clearance
               [] pos.wallPosition = "back" -> -halfLength - Clearance
               [] pos.wallPosition = "left" -> along
               [] pos.wallPosition = "right" -> along
        rotY == CASE pos.wallPosition = "front" -> 0
                  [] pos.wallPosition = "back" -> MathPI
                  [] pos.wallPosition = "left" -> MathPI \div 2
                  [] pos.wallPosition = "right" -> -(MathPI \div 2)
    IN [position |-> <<x, y, z>>,
        rotation |-> <<0, rotY, 0>>,
        dimensions |-> <<feature.width, feature.height, FeatureDepth>>]

(***************************************************************************)
(* Roof.                                                                   *)
(***************************************************************************)
Roof_roofHeight(width, pitch) == ((width \div 2) * pitch) \div 12

Roof_pitchAngle(width, roofHeight) == MathAtan2(roofHeight, width \div 2)

Roof_panelLength_runOnly(width, roofHeight) ==
    MathSqrt((width \div 2) * (width \div 2))

Roof_panelLength(width, roofHeight) ==
    MathSqrt(((width \div 2) * (width \div 2)) + (roofHeight * roofHeight))

createSkylight(skylight, isLeftPanel) ==
    LET xPos == skylight.xOffset
        yPos == skylight.yOffset
    IN [key |-> <<IF isLeftPanel THEN "left" ELSE "right", xPos, yPos>>,
        position |-> <<xPos, yPos, 0>>,
        rotation |-> <<0, 0, 0>>,
        box |-> <<skylight.width, skylight.length, Thickness>>]

RECURSIVE MapSkylights(_, _)
MapSkylights(list, isLeftPanel) ==
    IF list = <<>> THEN <<>>
    ELSE <<createSkylight(Head(list), isLeftPanel)>>
         \o MapSkylights(Tail(list), isLeftPanel)

IsLeftSkylight_orOnRidge(s) == s.xOffset <= 0

IsLeftSkylight(s) == s.xOffset < 0

IsRightSkylight(s) == s.xOffset >= 0

LeftPanelPosition_atEave(width, roofHeight) == <<-(width \div 2), roofHeight \div 2, 0>>

LeftPanelPosition(width, roofHeight) == <<-(width \div 4), roofHeight \div 2, 0>>

RightPanelPosition_noRise(width, roofHeight) == <<width \div 4, 0, 0>>

RightPanelPosition(width, roofHeight) == <<width \div 4, roofHeight \div 2, 0>>

RidgeCapPosition(roofHeight) == <<0, roofHeight, 0>>

\* What Roof renders once its roofHeight is known.
Roof_render(width, length, height, roofHeight, skylightList) ==
    LET pitchAngle  == Roof_pitchAngle(width, roofHeight)
        panelLength == Roof_panelLength(width, roofHeight)
    IN [position |-> <<0, height, 0>>,
        roofHeight |-> roofHeight,
        pitchAngle |-> pitchAngle,
        panelLength |-> panelLength,
        leftPanel |->
            [position |-> LeftPanelPosition(width, roofHeight),
             rotationZ |-> pitchAngle,
             box |-> <<panelLength, Thickness, length>>,
             skylights |-> MapSkylights(SelectSeq(skylightList, IsLeftSkylight), TRUE)],
        rightPanel |->
            [position |-> RightPanelPosition(width, roofHeight),
             rotationZ |-> Negate(pitchAngle),
             box |-> <<panelLength, Thickness, length>>,
             skylights |-> MapSkylights(SelectSeq(skylightList, IsRightSkylight), FALSE)],
        ridgeCap |->
            [position |-> RidgeCapPosition(roofHeight),
             box |-> <<(4 * Unit) \div 10, (3 * Unit) \div 10, length>>]]

Roof(width, length, height, pitch, skylightList) ==
    Roof_render(width, length, height, Roof_roofHeight(width, pitch), skylightList)

(***************************************************************************)
(* Wall: the geometry useMemo and the solid the render picks.              *)
(***************************************************************************)
Wall_isGable_anyPitch(wallPosition, roofPitch) ==
    wallPosition = "front" \/ wallPosition = "back"

Wall_isGable_anyWall(wallPosition, roofPitch) == roofPitch > 0

Wall_isGable(wallPosition, roofPitch) ==
    (wallPosition = "front" \/ wallPosition = "back") /\ roofPitch > 0

Wall_roofHeight(width, roofPitch) == ((width \div 2) * roofPitch) \div 12

(***************************************************************************)
(* Wall: the beams useMemo.  A position is carried twice: x, the sum in    *)
(* exact arithmetic, and xDbl, the double the loop computes and compares   *)
(* with the bound.  A beam height is the exact fraction num/den.           *)
(***************************************************************************)
\* A length that is a whole number of half units, counted in halves.
Halves(n) == n \div (Unit \div 2)

Wall_availableWidth(width) == width - (2 * Ft(2))

Wall_numSpaces(width) == Max(2, Wall_availableWidth(width) \div Ft(8))

Wall_spacing(width) ==
    Max(Ft(4), Wall_availableWidth(width) \div Wall_numSpaces(width))

Wall_spacingDbl(width) ==
    DblMax(DblFromHalves(Halves(Ft(4))),
           DblDivide(Halves(Wall_availableWidth(width)), Wall_numSpaces(width)))

\* while (currentPos <= width/2 - margin) { push; currentPos += spacing }
RECURSIVE Wall_beamLoop(_, _, _, _, _, _)
Wall_beamLoop(positions, currentPos, currentDbl, spacing, spacingDbl, lastDbl) ==
    IF DblLessEq(currentDbl, lastDbl)
    THEN Wall_beamLoop(Append(positions, [x |-> currentPos, xDbl |-> currentDbl]),
                       currentPos + spacing, DblAdd(currentDbl, spacingDbl),
                       spacing, spacingDbl, lastDbl)
    ELSE positions

Wall_beamPositions_fromWallEnd(width) ==
    Wall_beamLoop(<<>>, -(width \div 2),
                  DblFromHalves(Halves(-(width \div 2))),
                  Wall_spacing(width), Wall_spacingDbl(width),
                  DblFromHalves(Halves((width \div 2) - Ft(2))))

Wall_beamPositions(width) ==
    Wall_beamLoop(<<>>, -(width \div 2) + Ft(2),
                  DblFromHalves(Halves(-(width \div 2) + Ft(2))),
                  Wall_spacing(width), Wall_spacingDbl(width),
                  DblFromHalves(Halves((width \div 2) - Ft(2))))

Wall_beamHeight_fullWidthRatio(props, x) ==
    IF Wall_isGable(props.wallPosition, props.roofPitch)
    THEN LET roofHeight == Wall_roofHeight(props.width, props.roofPitch)
             relativeX  == Abs(x)
             ratio == [num |-> props.width - relativeX, den |-> props.width]
         IN [num |-> (props.height * ratio.den) + (roofHeight * ratio.num),
             den |-> ratio.den]
    ELSE [num |-> props.height, den |-> 1]

Wall_beamHeight(props, x) ==
    IF Wall_isGable(props.wallPosition, props.roofPitch)
    THEN LET roofHeight == Wall_roofHeight(props.width, props.roofPitch)
             relativeX  == Abs(x)
             ratio == [num |-> (props.width \div 2) - relativeX,
                       den |-> props.width \div 2]
         IN [num |-> (props.height * ratio.den) + (roofHeight * ratio.num),
             den |-> ratio.den]
    ELSE [num |-> props.height, den |-> 1]

Wall_beams(props) ==
    LET positions == Wall_beamPositions(props.width)
    IN [i \in 1..Len(positions) |->
           [x |-> positions[i].x, xDbl |-> positions[i].xDbl,
            height |-> Wall_beamHeight(props, positions[i].x)]]

\* The UV useMemo: texture coordinates of one vertex of the extruded outline,
\* each an exact fraction num/den.
Wall_uv_overEaveHeight(vertex, width, height, totalHeight) ==
    [u |-> [num |-> vertex[1] + (width \div 2), den |-> width],
     v |-> [num |-> vertex[2] + (height \div 2), den |-> height]]

Wall_uv(vertex, width, height, totalHeight) ==
    [u |-> [num |-> vertex[1] + (width \div 2), den |-> width],
     v |-> [num |-> vertex[2] + (height \div 2), den |-> totalHeight]]

Wall_uvs(shape, width, height, totalHeight) ==
    [i \in 1..Len(shape) |-> Wall_uv(shape[i], width, height, totalHeight)]

Wall_shape_apexAtHalfRise(width, height, roofHeight) ==
    << <<-(width \div 2), -(height \div 2)>>,
       <<width \div 2, -(height \div 2)>>,
       <<width \div 2, height \div 2>>,
       <<0, (height \div 2) + (roofHeight \div 2)>>,
       <<-(width \div 2), height \div 2>>,
       <<-(width \div 2), -(height \div 2)>> >>

Wall_shape(width, height, roofHeight) ==
    << <<-(width \div 2), -(height \div 2)>>,
       <<width \div 2, -(height \div 2)>>,
       <<width \div 2, height \div 2>>,
       <<0, (height \div 2) + roofHeight>>,
       <<-(width \div 2), height \div 2>>,
       <<-(width \div 2), -(height \div 2)>> >>

Wall(props) ==
    LET width  == props.width
        height == props.height
        gable  == Wall_isGable(props.wallPosition, props.roofPitch)
        roofHeight == Wall_roofHeight(width, props.roofPitch)
    IN [position |-> props.position,
        rotation |-> props.rotation,
        wallPosition |-> props.wallPosition,
        width |-> width,
        height |-> height,
        gable |-> gable,
        shape |-> IF gable THEN Wall_shape(width, height, roofHeight) ELSE <<>>,
        uvs |-> IF gable
                THEN Wall_uvs(Wall_shape(width, height, roofHeight),
                              width, height, height + roofHeight)
                ELSE <<>>,
        totalHeight |-> IF gable THEN height + roofHeight ELSE height,
        box |-> <<width, height, Thickness>>]

(***************************************************************************)
(* Wall: createSteelBeam.  The beam's group stands at [x, 0, zOffset] in   *)
(* the wall's frame; its web is a box of height beamHeight centred on the  *)
(* group's origin, and the flanges climb from y = -beamHeight/2 in steps   *)
(* of flangeSpacing.  Heights are exact fractions, as beamHeight is.       *)
(***************************************************************************)
\* Math.min(6, beamHeight / 4)
Wall_flangeSpacing(beamHeight) ==
    IF beamHeight.num <= Ft(24) * beamHeight.den
    THEN [num |-> beamHeight.num, den |-> 4 * beamHeight.den]
    ELSE [num |-> Ft(6), den |-> 1]

\* Math.ceil(beamHeight / flangeSpacing)
\* beamHeight / (beamHeight / 4) is exactly 4 in doubles, as it is here.
Wall_flangeCount(beamHeight) ==
    LET flangeSpacing == Wall_flangeSpacing(beamHeight)
    IN IF flangeSpacing.den = 1
       THEN LET d == beamHeight.den * flangeSpacing.num
            IN (beamHeight.num + d - 1) \div d
       ELSE 4

\* y = -beamHeight/2 + i * flangeSpacing, over the denominator 4 * den
Wall_flangeY(beamHeight, i) ==
    LET flangeSpacing == Wall_flangeSpacing(beamHeight)
    IN [num |-> (i * flangeSpacing.num * ((4 * beamHeight.den) \div flangeSpacing.den))
                   - (2 * beamHeight.num),
        den |-> 4 * beamHeight.den]

createSteelBeam(wallPosition, x, beamHeight) ==
    LET beamWidth == (3 * Unit) \div 10
        beamDepth == Thickness
        flangeWidth == (4 * Unit) \div 10
        flangeHeight == (15 * Unit) \div 100
        zOffset == IF wallPosition \in {"front", "back"}
                   THEN -(Unit \div 10) ELSE Unit \div 10
    IN [position |-> <<x, 0, zOffset>>,
        web |-> [position |-> <<0, 0, 0>>,
                 box |-> [width |-> beamWidth, height |-> beamHeight,
                          depth |-> beamDepth]],
        flanges |-> [k \in 1..Wall_flangeCount(beamHeight) |->
                        [y |-> Wall_flangeY(beamHeight, k - 1),
                         box |-> [width |-> flangeWidth, height |-> flangeHeight,
                                  depth |-> [num |-> 12 * beamDepth,
                                             den |-> 10]]]]]

\* beams.map((beam, index) => createSteelBeam(beam.x, beam.height))
Wall_steelBeams(props) ==
    LET beams == Wall_beams(props)
    IN [i \in 1..Len(beams) |->
           createSteelBeam(props.wallPosition, beams[i].x, beams[i].height)]

(***************************************************************************)
(* Building: the props it hands to the four Walls and to Roof, and its own *)
(* roofHeight and totalHeight.                                             *)
(***************************************************************************)
Building_roofHeight_fromLength(d) == ((d.length \div 2) * d.roofPitch) \div 12

Building_roofHeight(d) == ((d.width \div 2) * d.roofPitch) \div 12

Building_totalHeight(d) == d.height + Building_roofHeight(d)

Building_wallProps_sideWallsSpanWidth(d, wallPosition) ==
    LET halfWidth  == d.width \div 2
        halfLength == d.length \div 2
    IN CASE wallPosition = "front" ->
               [position |-> <<0, d.height \div 2, halfLength>>,
                width |-> d.width, height |-> d.height,
                wallPosition |-> "front", roofPitch |-> d.roofPitch,
                rotation |-> <<0, 0, 0>>]
         [] wallPosition = "back" ->
               [position |-> <<0, d.height \div 2, -halfLength>>,
                width |-> d.width, height |-> d.height,
                wallPosition |-> "back", roofPitch |-> d.roofPitch,
                rotation |-> <<0, MathPI, 0>>]
         [] wallPosition = "left" ->
               [position |-> <<-halfWidth, d.height \div 2, 0>>,
                width |-> d.width, height |-> d.height,
                wallPosition |-> "left", roofPitch |-> 0,
                rotation |-> <<0, MathPI \div 2, 0>>]
         [] wallPosition = "right" ->
               [position |-> <<halfWidth, d.height \div 2, 0>>,
                width |-> d.width, height |-> d.height,
                wallPosition |-> "right", roofPitch |-> 0,
                rotation |-> <<0, -(MathPI \div 2), 0>>]

Building_wallProps_sideYawsSwapped(d, wallPosition) ==
    LET halfWidth  == d.width \div 2
        halfLength == d.length \div 2
    IN CASE wallPosition = "front" ->
               [position |-> <<0, d.height \div 2, halfLength>>,
                width |-> d.width, height |-> d.height,
                wallPosition |-> "front", roofPitch |-> d.roofPitch,
                rotation |-> <<0, 0, 0>>]
         [] wallPosition = "back" ->
               [position |-> <<0, d.height \div 2, -halfLength>>,
                width |-> d.width, height |-> d.height,
                wallPosition |-> "back", roofPitch |-> d.roofPitch,
                rotation |-> <<0, MathPI, 0>>]
         [] wallPosition = "left" ->
               [position |-> <<-halfWidth, d.height \div 2, 0>>,
                width |-> d.length, height |-> d.height,
                wallPosition |-> "left", roofPitch |-> 0,
                rotation |-> <<0, -(MathPI \div 2), 0>>]
         [] wallPosition = "right" ->
               [position |-> <<halfWidth, d.height \div 2, 0>>,
                width |-> d.length, height |-> d.height,
                wallPosition |-> "right", roofPitch |-> 0,
                rotation |-> <<0, MathPI \div 2, 0>>]

Building_wallProps(d, wallPosition) ==
    LET halfWidth  == d.width \div 2
        halfLength == d.length \div 2
    IN CASE wallPosition = "front" ->
               [position |-> <<0, d.height \div 2, halfLength>>,
                width |-> d.width, height |-> d.height,
                wallPosition |-> "front", roofPitch |-> d.roofPitch,
                rotation |-> <<0, 0, 0>>]
         [] wallPosition = "back" ->
               [position |-> <<0, d.height \div 2, -halfLength>>,
                width |-> d.width, height |-> d.height,
                wallPosition |-> "back", roofPitch |-> d.roofPitch,
                rotation |-> <<0, MathPI, 0>>]
         [] wallPosition = "left" ->
               [position |-> <<-halfWidth, d.height \div 2, 0>>,
                width |-> d.length, height |-> d.height,
                wallPosition |-> "left", roofPitch |-> 0,
                rotation |-> <<0, MathPI \div 2, 0>>]
         [] wallPosition = "right" ->
               [position |-> <<halfWidth, d.height \div 2, 0>>,
                width |-> d.length, height |-> d.height,
                wallPosition |-> "right", roofPitch |-> 0,
                rotation |-> <<0, -(MathPI \div 2), 0>>]

RenderFeatures(d, featureList) ==
    [i \in 1..Len(featureList) |-> WallFeature(featureList[i], d)]

RenderWalls(d) ==
    [wp \in WallPositions |-> Wall(Building_wallProps(d, wp))]

RenderRoof(d, skylightList) ==
    Roof(d.width, d.length, d.height, d.roofPitch, skylightList)

RenderBuilding(d) ==
    [roofHeight |-> Building_roofHeight(d), totalHeight |-> Building_totalHeight(d)]

\* One render pass of Building and its children from the store's value.
Rendered(d, featureList, skylightList) ==
    /\ featureScene'  = RenderFeatures(d, featureList)
    /\ wallScene'     = RenderWalls(d)
    /\ roofScene'     = RenderRoof(d, skylightList)
    /\ buildingScene' = RenderBuilding(d)

(***************************************************************************)
(* RainGutter, as RainGutter.tsx last defines it and as part_001 does; the *)
(* two differ in how far outside the eave line they put the hardware.      *)
(* Building does not render RainGutter: its props are width, length,       *)
(* height and roofPitch.  A gutter run is the U profile (1.0 wide, in the  *)
(* mesh's local xy plane) extruded by depth along the mesh's local +z; the *)
(* 0.03 bevel of the extrusion is left out.                                *)
(***************************************************************************)
GutterSources == {"RainGutter.tsx", "part_001"}

RainGutter_gutterHeight(height) == height - ((2 * Unit) \div 10)

RainGutter_wallThickness(source) ==
    IF source = "part_001" THEN Unit \div 10 ELSE (2 * Unit) \div 10

RainGutter_frontGutterZ(source, length) ==
    IF source = "part_001"
    THEN (length \div 2) + RainGutter_wallThickness(source)
    ELSE (length \div 2) + RainGutter_wallThickness(source) + ((3 * Unit) \div 10)

RainGutter_backGutterZ(source, length) ==
    IF source = "part_001"
    THEN -(length \div 2) - RainGutter_wallThickness(source)
    ELSE -(length \div 2) - RainGutter_wallThickness(source) - ((3 * Unit) \div 10)

RainGutter_frontBracketZ(source, length) ==
    IF source = "part_001" THEN length \div 2
    ELSE (length \div 2) + (RainGutter_wallThickness(source) \div 2)

RainGutter_backBracketZ(source, length) ==
    IF source = "part_001" THEN -(length \div 2)
    ELSE -(length \div 2) - (RainGutter_wallThickness(source) \div 2)

RainGutter_gutterRun(z, width, gutterHeight) ==
    [position |-> <<0, gutterHeight, z>>,
     rotation |-> <<0, 0, 0>>,
     profileWidth |-> Unit,
     depth |-> width]

RainGutter_downspout_toMidHeight(x, z, height) ==
    [position |-> <<x, ((3 * height) \div 4), z>>,
     radius |-> (15 * Unit) \div 100,
     height |-> height \div 2]

RainGutter_downspout(x, z, height) ==
    [position |-> <<x, ((height - Ft(1)) \div 2) + (Unit \div 2), z>>,
     radius |-> (15 * Unit) \div 100,
     height |-> height - Ft(1)]

RainGutter_downspouts(width, height, frontZ, backZ) ==
    << RainGutter_downspout(-(width \div 2), frontZ, height),
       RainGutter_downspout(width \div 2, frontZ, height),
       RainGutter_downspout(-(width \div 2), backZ, height),
       RainGutter_downspout(width \div 2, backZ, height) >>

RainGutter_bracketX_fromCentre(width, i) == i * Ft(8)

RainGutter_bracketX(width, i) == -(width \div 2) + (i * Ft(8))

\* for (i = 0; i <= Math.floor(width / bracketSpacing); i++)
\*     if (Math.abs(x) <= width/2) brackets.push(...)
RECURSIVE RainGutter_bracketLoop(_, _, _, _, _)
RainGutter_bracketLoop(brackets, i, width, y, z) ==
    IF i <= width \div Ft(8)
    THEN LET x == RainGutter_bracketX(width, i)
         IN RainGutter_bracketLoop(
                IF Abs(x) <= width \div 2
                THEN Append(brackets, [key |-> i, position |-> <<x, y, z>>])
                ELSE brackets,
                i + 1, width, y, z)
    ELSE brackets

RainGutter(props) ==
    LET width  == props.width
        length == props.length
        height == props.height
        gutterHeight == RainGutter_gutterHeight(height)
        frontGutterZ == RainGutter_frontGutterZ(props.source, length)
        backGutterZ  == RainGutter_backGutterZ(props.source, length)
    IN [frontGutter |-> RainGutter_gutterRun(frontGutterZ, width, gutterHeight),
        backGutter  |-> RainGutter_gutterRun(backGutterZ, width, gutterHeight),
        downspouts  |-> RainGutter_downspouts(width, height, frontGutterZ, backGutterZ),
        frontBrackets |->
            RainGutter_bracketLoop(<<>>, 0, width, gutterHeight + ((2 * Unit) \div 10),
                                   RainGutter_frontBracketZ(props.source, length)),
        backBrackets |->
            RainGutter_bracketLoop(<<>>, 0, width, gutterHeight + ((2 * Unit) \div 10),
                                   RainGutter_backBracketZ(props.source, length))]

(***************************************************************************)
(* The store.  Every action replaces part of the Building value, and the   *)
(* components that read it render again before anything else happens.      *)
(***************************************************************************)
IdleSolver ==
    [width |-> 0, pitch |-> 0, evaluated |-> FALSE,
     roofHeight |-> 0, panelLength |-> MathSqrt(0)]

\* No Wall and no RainGutter rendered on their own.
IdleWallProbe == [rendered |-> FALSE]

IdleGutterProbe == [rendered |-> FALSE]

\* No component mounted on its own.
IdleMemoProbe == [mounted |-> FALSE]

InitialDimensions ==
    [width |-> Ft(40), length |-> Ft(60), height |-> Ft(14), roofPitch |-> 4]

Init ==
    /\ dimensions = InitialDimensions
    /\ features = <<>>
    /\ skylights = <<>>
    /\ featureScene = RenderFeatures(InitialDimensions, <<>>)
    /\ wallScene = RenderWalls(InitialDimensions)
    /\ roofScene = RenderRoof(InitialDimensions, <<>>)
    /\ buildingScene = RenderBuilding(InitialDimensions)
    /\ solver = IdleSolver
    /\ wallProbe = IdleWallProbe
    /\ gutterProbe = IdleGutterProbe
    /\ memoProbe = IdleMemoProbe

updateDimensions(field, value) ==
    /\ dimensions' = [dimensions EXCEPT ![field] = value]
    /\ UNCHANGED <<features, skylights, solver, wallProbe, gutterProbe, memoProbe>>
    /\ Rendered(dimensions', features, skylights)

FeatureIds == 1..MaxFeatures

UsedIds == {features[i].id : i \in 1..Len(features)}

NewFeatures ==
    [type : {"door"}, width : FeatureWidths, height : FeatureHeights,
     position : [wallPosition : WallPositions, xOffset : FeatureXOffsets,
                 yOffset : FeatureYOffsets, alignment : Alignments]]

addFeature(feature) ==
    /\ Len(features) < MaxFeatures
    /\ LET id == CHOOSE n \in FeatureIds : n \notin UsedIds
       IN features' = Append(features,
                             [id |-> id, type |-> feature.type,
                              width |-> feature.width, height |-> feature.height,
                              position |-> feature.position])
    /\ UNCHANGED <<dimensions, skylights, solver, wallProbe, gutterProbe, memoProbe>>
    /\ Rendered(dimensions, features', skylights)

removeFeature(id) ==
    /\ id \in UsedIds
    /\ LET Keep(f) == f.id # id
       IN features' = SelectSeq(features, Keep)
    /\ UNCHANGED <<dimensions, skylights, solver, wallProbe, gutterProbe, memoProbe>>
    /\ Rendered(dimensions, features', skylights)

NewSkylights ==
    [width : {Ft(2)}, length : {Ft(4)},
     xOffset : SkylightXOffsets, yOffset : SkylightYOffsets]

addSkylight(skylight) ==
    /\ Len(skylights) < MaxSkylights
    /\ skylights' = Append(skylights, skylight)
    /\ UNCHANGED <<dimensions, features, solver, wallProbe, gutterProbe, memoProbe>>
    /\ Rendered(dimensions, features, skylights')

removeSkylight(index) ==
    /\ index \in 1..Len(skylights)
    /\ skylights' = SubSeq(skylights, 1, index - 1)
                    \o SubSeq(skylights, index + 1, Len(skylights))
    /\ UNCHANGED <<dimensions, features, solver, wallProbe, gutterProbe, memoProbe>>
    /\ Rendered(dimensions, features, skylights')

NextFeatures ==
    \/ \E w \in Widths : updateDimensions("width", w)
    \/ \E l \in Lengths : updateDimensions("length", l)
    \/ \E f \in NewFeatures : addFeature(f)
    \/ \E id \in FeatureIds : removeFeature(id)

NextRoof ==
    \/ \E w \in Widths : updateDimensions("width", w)
    \/ \E l \in Lengths : updateDimensions("length", l)
    \/ \E h \in Heights : updateDimensions("height", h)
    \/ \E p \in Pitches : updateDimensions("roofPitch", p)
    \/ \E s \in NewSkylights : addSkylight(s)
    \/ \E i \in 1..MaxSkylights : removeSkylight(i)

Next ==
    \/ NextFeatures
    \/ NextRoof

Spec == Init /\ [][Next]_vars

\* The store driving feature placement: width, length and the feature list.
SpecFeatures == Init /\ [][NextFeatures]_vars

\* The store driving the roof: the dimensions and the skylight list.
SpecRoof == Init /\ [][NextRoof]_vars

(***************************************************************************)
(* The dimension and pitch solver (Roof's roofHeight and panelLength) as a *)
(* function of its two inputs alone, width = 0 included.                   *)
(***************************************************************************)
InitSolver ==
    /\ dimensions = InitialDimensions
    /\ features = <<>>
    /\ skylights = <<>>
    /\ featureScene = RenderFeatures(InitialDimensions, <<>>)
    /\ wallScene = RenderWalls(InitialDimensions)
    /\ roofScene = RenderRoof(InitialDimensions, <<>>)
    /\ buildingScene = RenderBuilding(InitialDimensions)
    /\ \E w \in 0..MaxSolverWidth, p \in 0..MaxSolverPitch :
          solver = [IdleSolver EXCEPT !.width = Ft(w), !.pitch = p]
    /\ wallProbe = IdleWallProbe
    /\ gutterProbe = IdleGutterProbe
    /\ memoProbe = IdleMemoProbe

Solve ==
    /\ ~solver.evaluated
    /\ LET roofHeight == Roof_roofHeight(solver.width, solver.pitch)
       IN solver' = [solver EXCEPT
                        !.evaluated = TRUE,
                        !.roofHeight = roofHeight,
                        !.panelLength = Roof_panelLength(solver.width, roofHeight)]
    /\ UNCHANGED <<dimensions, features, skylights, featureScene, wallScene,
                   roofScene, buildingScene, wallProbe, gutterProbe, memoProbe>>

SpecSolver == InitSolver /\ [][Solve]_vars

(***************************************************************************)
(* Wall as a function of its props alone: every wall width from 1 up, on   *)
(* every wall position, whatever pitch is passed.  The wall stands where   *)
(* Building puts every wall, its centre at y = height/2, on the building's *)
(* axis and unrotated.  The probe holds the wall's solid and texture       *)
(* coordinates and its vertical beams; wallScene holds the solids only.    *)
(***************************************************************************)
WallProbePitches == {0, 5, 12}

WallProbeProps ==
    {[position |-> <<0, h \div 2, 0>>, rotation |-> <<0, 0, 0>>,
      width |-> Ft(w), height |-> h, wallPosition |-> wp, roofPitch |-> p] :
        w \in 1..MaxWallWidth, h \in Heights, wp \in WallPositions,
        p \in WallProbePitches}

SceneAtRest ==
    /\ dimensions = InitialDimensions
    /\ features = <<>>
    /\ skylights = <<>>
    /\ featureScene = RenderFeatures(InitialDimensions, <<>>)
    /\ wallScene = RenderWalls(InitialDimensions)
    /\ roofScene = RenderRoof(InitialDimensions, <<>>)
    /\ buildingScene = RenderBuilding(InitialDimensions)
    /\ solver = IdleSolver

InitWall ==
    /\ SceneAtRest
    /\ \E props \in WallProbeProps :
          wallProbe = [rendered |-> FALSE, props |-> props]
    /\ gutterProbe = IdleGutterProbe
    /\ memoProbe = IdleMemoProbe

RenderWall ==
    /\ ~wallProbe.rendered
    /\ wallProbe' = [rendered |-> TRUE, props |-> wallProbe.props,
                     wall |-> Wall(wallProbe.props),
                     beams |-> Wall_beams(wallProbe.props),
                     steelBeams |-> Wall_steelBeams(wallProbe.props)]
    /\ UNCHANGED <<dimensions, features, skylights, featureScene, wallScene,
                   roofScene, buildingScene, solver, gutterProbe, memoProbe>>

SpecWall == InitWall /\ [][RenderWall]_vars

(***************************************************************************)
(* RainGutter as a function of its props alone.                            *)
(***************************************************************************)
GutterProbeHeights == {Ft(2), Ft(10), Ft(14)}

GutterProbeProps ==
    [source : GutterSources, width : {Ft(w) : w \in 1..MaxGutterWidth},
     length : Lengths, height : GutterProbeHeights, roofPitch : {4}]

InitGutter ==
    /\ SceneAtRest
    /\ wallProbe = IdleWallProbe
    /\ \E props \in GutterProbeProps :
          gutterProbe = [rendered |-> FALSE, props |-> props]
    /\ memoProbe = IdleMemoProbe

RenderGutter ==
    /\ ~gutterProbe.rendered
    /\ gutterProbe' = [rendered |-> TRUE, props |-> gutterProbe.props,
                       gutter |-> RainGutter(gutterProbe.props)]
    /\ UNCHANGED <<dimensions, features, skylights, featureScene, wallScene,
                   roofScene, buildingScene, solver, wallProbe, memoProbe>>

SpecGutter == InitGutter /\ [][RenderGutter]_vars

(***************************************************************************)
(* Feature placement (C1 - C3), under SpecFeatures.                        *)
(***************************************************************************)
\* The sign table as the specification writes it: <<x, z, yaw>> of a feature
\* of width w at offset xo on wall wp with alignment al, building W by L.
SignTable(wp, al, W, L, w, xo) ==
    LET Pick(l, r, c) == IF al = "left" THEN l ELSE IF al = "right" THEN r ELSE c
    IN CASE wp = "front" ->
              <<Pick(-(W \div 2) + (w \div 2) + xo, (W \div 2) - (w \div 2) - xo, xo),
                (L \div 2) + Clearance, 0>>
         [] wp = "back" ->
              <<Pick((W \div 2) - (w \div 2) - xo, -(W \div 2) + (w \div 2) + xo, -xo),
                -(L \div 2) - Clearance, 2>>
         [] wp = "left" ->
              <<-(W \div 2) - Clearance,
                Pick(-(L \div 2) + (w \div 2) + xo, (L \div 2) - (w \div 2) - xo, xo), 1>>
         [] wp = "right" ->
              <<(W \div 2) + Clearance,
                Pick((L \div 2) - (w \div 2) - xo, -(L \div 2) + (w \div 2) + xo, -xo), -1>>

\* C1: every rendered feature sits where the sign table puts it (x, z and yaw
\* by wall and alignment, clearance 0.1), at y = yOffset + height/2.
C1_SignTable ==
    /\ Len(featureScene) = Len(features)
    /\ \A i \in 1..Len(features) :
          LET f == features[i]
              t == SignTable(f.position.wallPosition, f.position.alignment,
                             dimensions.width, dimensions.length,
                             f.width, f.position.xOffset)
          IN /\ featureScene[i].position =
                    <<t[1], f.position.yOffset + (f.height \div 2), t[2]>>
             /\ featureScene[i].rotation = <<0, t[3], 0>>

\* A centre-aligned feature on the back wall at a non-zero offset is rendered
\* mirrored, raised by its yOffset.
C1_Witness ==
    \E i \in 1..Len(features) :
        /\ features[i].position.wallPosition = "back"
        /\ features[i].position.alignment = "center"
        /\ features[i].position.xOffset = Ft(10)
        /\ features[i].position.yOffset = Ft(3)
        /\ featureScene[i].position[1] = -Ft(10)
        /\ featureScene[i].rotation[2] = MathPI

OnGableWall(f) == f.position.wallPosition \in {"front", "back"}

\* C2 as stated: on the front and back walls a feature with xOffset = 0 is at
\* x = 0 whatever its alignment.
C2_CenteredAnyAlignment ==
    \A i \in 1..Len(features) :
        (OnGableWall(features[i]) /\ features[i].position.xOffset = 0)
            => featureScene[i].position[1] = 0

\* C2 amended: on the front and back walls a feature with xOffset = 0 is at
\* x = 0 when its alignment is center; with alignment left or right it is
\* flush with a wall end, |x| = W/2 - w/2, which is 0 only when the feature
\* is as wide as the wall.
C2_CenteredWhenCenterAligned ==
    \A i \in 1..Len(features) :
        LET f == features[i]
            x == featureScene[i].position[1]
        IN (OnGableWall(f) /\ f.position.xOffset = 0)
              => IF f.position.alignment = "center"
                 THEN x = 0
                 ELSE /\ Abs(x) = (dimensions.width \div 2) - (f.width \div 2)
                      /\ (x = 0 <=> f.width = dimensions.width)

\* A centre-aligned feature at offset 0 on the back wall is rendered at x = 0.
C2_Witness ==
    \E i \in 1..Len(features) :
        /\ features[i].position.wallPosition = "back"
        /\ features[i].position.alignment = "center"
        /\ features[i].position.xOffset = 0
        /\ featureScene[i].position[1] = 0

WallWidthOf(f) ==
    IF OnGableWall(f) THEN dimensions.width ELSE dimensions.length

\* The rendered coordinate along the feature's wall.
AlongOf(i) ==
    IF OnGableWall(features[i]) THEN featureScene[i].position[1]
                                ELSE featureScene[i].position[3]

OffsetInRange(f) ==
    IF f.position.alignment = "center"
    THEN 2 * Abs(f.position.xOffset) <= WallWidthOf(f) - f.width
    ELSE 0 <= f.position.xOffset /\ f.position.xOffset <= WallWidthOf(f) - f.width

ExtentWithinWall(i) ==
    LET f == features[i]
    IN /\ -(WallWidthOf(f) \div 2) <= AlongOf(i) - (f.width \div 2)
       /\ AlongOf(i) + (f.width \div 2) <= WallWidthOf(f) \div 2

\* C3: a feature no wider than its wall lies within the wall's extent when
\* its offset is in range, and is rendered unclamped, beyond the wall's end,
\* when it is not.
C3_WithinWallIffInRange ==
    \A i \in 1..Len(features) :
        features[i].width <= WallWidthOf(features[i])
            => (OffsetInRange(features[i]) <=> ExtentWithinWall(i))

\* A feature at the largest offset in range: its far edge is on the wall's end.
C3_Witness ==
    \E i \in 1..Len(features) :
        /\ features[i].position.alignment = "left"
        /\ features[i].position.xOffset > 0
        /\ features[i].position.xOffset = WallWidthOf(features[i]) - features[i].width
        /\ ExtentWithinWall(i)
        /\ Abs(AlongOf(i)) + (features[i].width \div 2) = WallWidthOf(features[i]) \div 2

(***************************************************************************)
(* The scene graph: a child of a panel group at local (lx, ly) is rotated  *)
(* about the length axis by the group's rotationZ and moved by the group's *)
(* position, all inside the roof group.  The divisions are exact where the *)
(* panel length is rational (RoofExact).                                   *)
(***************************************************************************)
RoofExact ==
    /\ IsExact(roofScene.panelLength)
    /\ IsExact(roofScene.pitchAngle.hyp)

\* In the roof group's frame.
PanelPoint(panel, lx, ly) ==
    LET a == panel.rotationZ
        h == a.hyp.value
    IN <<panel.position[1] + (((lx * a.run) - (ly * a.rise)) \div h),
         panel.position[2] + (((lx * a.rise) + (ly * a.run)) \div h)>>

\* In world coordinates.
PanelPointWorld(panel, lx, ly) ==
    LET q == PanelPoint(panel, lx, ly)
    IN <<roofScene.position[1] + q[1], roofScene.position[2] + q[2]>>

HalfPanel(panel) == panel.box[1].value \div 2

LeftInnerEdge == PanelPoint(roofScene.leftPanel, HalfPanel(roofScene.leftPanel), 0)

RightInnerEdge == PanelPoint(roofScene.rightPanel, -HalfPanel(roofScene.rightPanel), 0)

LeftOuterEdge == PanelPointWorld(roofScene.leftPanel, -HalfPanel(roofScene.leftPanel), 0)

RightOuterEdge == PanelPointWorld(roofScene.rightPanel, HalfPanel(roofScene.rightPanel), 0)

RidgePoint == <<roofScene.ridgeCap.position[1], roofScene.ridgeCap.position[2]>>

\* Whether point q of the roof group's frame is strictly inside the panel's
\* box (the point is taken back into the panel's frame, scaled by hyp).
InsidePanel(panel, q) ==
    LET a  == panel.rotationZ
        h  == a.hyp.value
        dx == q[1] - panel.position[1]
        dy == q[2] - panel.position[2]
    IN /\ 2 * Abs((dx * a.run) + (dy * a.rise)) < panel.box[1].value * h
       /\ 2 * Abs((dy * a.run) - (dx * a.rise)) < panel.box[2] * h

InsideRidgeCap(q) ==
    /\ 2 * Abs(q[1] - roofScene.ridgeCap.position[1]) < roofScene.ridgeCap.box[1]
    /\ 2 * Abs(q[2] - roofScene.ridgeCap.position[2]) < roofScene.ridgeCap.box[2]

\* How far around the ridge point the solids are probed, in 1/Unit.
ProbeRange == 2

ProbePoints ==
    {<<RidgePoint[1] + i, RidgePoint[2] + j>> :
        i \in (0 - ProbeRange)..ProbeRange, j \in (0 - ProbeRange)..ProbeRange}

CapOverlapsLeft == \E q \in ProbePoints :
    InsideRidgeCap(q) /\ InsidePanel(roofScene.leftPanel, q)

CapOverlapsRight == \E q \in ProbePoints :
    InsideRidgeCap(q) /\ InsidePanel(roofScene.rightPanel, q)

PanelsOverlap == \E q \in ProbePoints :
    InsidePanel(roofScene.leftPanel, q) /\ InsidePanel(roofScene.rightPanel, q)

(***************************************************************************)
(* Roof layout (C4, C5, C7 - C10), under SpecRoof.                         *)
(***************************************************************************)
\* C4 as stated: at pitch > 0 the inner edge of each panel is the point
\* (0, roofHeight) where the ridge cap is centred, and no two of the three
\* solids share an interior point.
C4_ContiguousNoOverlap ==
    (dimensions.roofPitch > 0 /\ RoofExact)
        => /\ LeftInnerEdge = RidgePoint
           /\ RightInnerEdge = RidgePoint
           /\ RidgePoint = <<0, roofScene.roofHeight>>
           /\ ~CapOverlapsLeft
           /\ ~CapOverlapsRight
           /\ ~PanelsOverlap

\* C4 amended: at pitch > 0 the inner edge of each panel's centre plane is
\* exactly the point (0, roofHeight) where the ridge cap is centred, so the
\* panels meet there without a gap; the solids are not disjoint: the ridge
\* cap box encloses that point and overlaps both panels, and the two panels
\* overlap each other below it.
C4_MeetAtRidgeUnderCap ==
    (dimensions.roofPitch > 0 /\ RoofExact)
        => /\ LeftInnerEdge = RidgePoint
           /\ RightInnerEdge = RidgePoint
           /\ RidgePoint = <<0, roofScene.roofHeight>>
           /\ CapOverlapsLeft
           /\ CapOverlapsRight
           /\ PanelsOverlap

\* A pitched roof of rational panel length whose left panel ends on the ridge.
C4_Witness ==
    /\ dimensions.roofPitch = 5
    /\ RoofExact
    /\ roofScene.roofHeight > 0
    /\ LeftInnerEdge = <<0, roofScene.roofHeight>>

WallTop(wp) ==
    <<wallScene[wp].position[1],
      wallScene[wp].position[2] + (wallScene[wp].box[2] \div 2)>>

\* C5: the eave edge of the left panel is at world (-width/2, height) and
\* that of the right panel at (width/2, height), the top edges of the left
\* and right walls.
C5_EavesOnWallTops ==
    RoofExact
        => /\ LeftOuterEdge = <<-(dimensions.width \div 2), dimensions.height>>
           /\ RightOuterEdge = <<dimensions.width \div 2, dimensions.height>>
           /\ LeftOuterEdge = WallTop("left")
           /\ RightOuterEdge = WallTop("right")

\* A pitched roof whose right eave is on the right wall's top.
C5_Witness ==
    /\ dimensions.roofPitch = 9
    /\ dimensions.height = Ft(10)
    /\ RoofExact
    /\ RightOuterEdge = WallTop("right")
    /\ RightOuterEdge[2] = Ft(10)

IsZeroAngle(a) == a.rise = 0 /\ a.run > 0

\* C7: at roofPitch = 0 the roof is flat: roofHeight 0, both panels
\* unrotated, panelLength = width/2, both panels at y = height, meeting at
\* x = 0 and spanning -width/2 .. width/2; the front and back walls are
\* plain width x height boxes.
C7_FlatRoof ==
    dimensions.roofPitch = 0
        => /\ roofScene.roofHeight = 0
           /\ IsZeroAngle(roofScene.leftPanel.rotationZ)
           /\ IsZeroAngle(roofScene.rightPanel.rotationZ)
           /\ IsExact(roofScene.panelLength)
           /\ roofScene.panelLength.value = dimensions.width \div 2
           /\ roofScene.leftPanel.box[1] = roofScene.panelLength
           /\ roofScene.rightPanel.box[1] = roofScene.panelLength
           /\ PanelPointWorld(roofScene.leftPanel, 0, 0)[2] = dimensions.height
           /\ PanelPointWorld(roofScene.rightPanel, 0, 0)[2] = dimensions.height
           /\ LeftInnerEdge = <<0, 0>>
           /\ RightInnerEdge = <<0, 0>>
           /\ LeftOuterEdge = <<-(dimensions.width \div 2), dimensions.height>>
           /\ RightOuterEdge = <<dimensions.width \div 2, dimensions.height>>
           /\ \A wp \in {"front", "back"} :
                 /\ ~wallScene[wp].gable
                 /\ wallScene[wp].shape = <<>>
                 /\ wallScene[wp].box[1] = dimensions.width
                 /\ wallScene[wp].box[2] = dimensions.height
                 /\ wallScene[wp].totalHeight = dimensions.height

\* A flat roof rendered over a 30 wide building.
C7_Witness ==
    /\ dimensions.roofPitch = 0
    /\ dimensions.width = Ft(30)
    /\ roofScene.panelLength.value = Ft(15)
    /\ ~wallScene["front"].gable

RECURSIVE CountAt(_, _)
\* How many meshes of the list are placed at local (x, y).
CountAt(meshes, at) ==
    IF meshes = <<>> THEN 0
    ELSE (IF Head(meshes).position = <<at[1], at[2], 0>> THEN 1 ELSE 0)
         + CountAt(Tail(meshes), at)

RECURSIVE CountOffsets(_, _)
\* How many skylights of the list have offsets (x, y).
CountOffsets(list, at) ==
    IF list = <<>> THEN 0
    ELSE (IF <<Head(list).xOffset, Head(list).yOffset>> = at THEN 1 ELSE 0)
         + CountOffsets(Tail(list), at)

\* C9: every skylight is rendered in exactly one panel group, the left one
\* iff xOffset < 0 and the right one iff xOffset >= 0; none is dropped and
\* none is rendered twice.
C9_SkylightPartition ==
    /\ Len(roofScene.leftPanel.skylights) + Len(roofScene.rightPanel.skylights)
          = Len(skylights)
    /\ \A i \in 1..Len(skylights) :
          LET at    == <<skylights[i].xOffset, skylights[i].yOffset>>
              n     == CountOffsets(skylights, at)
              left  == CountAt(roofScene.leftPanel.skylights, at)
              right == CountAt(roofScene.rightPanel.skylights, at)
          IN /\ left + right = n
             /\ (left > 0 <=> skylights[i].xOffset < 0)
             /\ (right > 0 <=> skylights[i].xOffset >= 0)

\* A skylight at xOffset 0 in the right group beside one at -3 in the left.
C9_Witness ==
    /\ Len(skylights) = 2
    /\ skylights[1].xOffset = 0
    /\ skylights[2].xOffset = Ft(0 - 3)
    /\ Len(roofScene.rightPanel.skylights) = 1
    /\ roofScene.rightPanel.skylights[1].position[1] = 0
    /\ Len(roofScene.leftPanel.skylights) = 1
    /\ roofScene.leftPanel.skylights[1].position[1] = Ft(0 - 3)

\* The panel-local x of the ridge: the panel's inner end.
RidgeLocalX(isLeftPanel, panel) ==
    IF isLeftPanel THEN HalfPanel(panel) ELSE -HalfPanel(panel)

\* Whether a skylight mesh of the panel is centred |xOffset| from the ridge,
\* measured along the panel or horizontally (world x, scaled by hyp).
AtOffsetFromRidge(isLeftPanel, panel, mesh) ==
    LET xo == mesh.position[1]
        yo == mesh.position[2]
        a  == panel.rotationZ
        h  == a.hyp.value
    IN \/ Abs(xo - RidgeLocalX(isLeftPanel, panel)) = Abs(xo)
       \/ Abs((panel.position[1] * h) + ((xo * a.run) - (yo * a.rise))) = Abs(xo) * h

\* C10: every rendered skylight is centred at distance |xOffset| from the
\* ridge centerline (on the ridge when xOffset = 0), on the left panel when
\* xOffset is negative and on the right panel otherwise.
C10_OffsetsFromRidge ==
    RoofExact
        => /\ \A i \in 1..Len(roofScene.leftPanel.skylights) :
                 /\ roofScene.leftPanel.skylights[i].position[1] < 0
                 /\ AtOffsetFromRidge(TRUE, roofScene.leftPanel,
                                      roofScene.leftPanel.skylights[i])
           /\ \A i \in 1..Len(roofScene.rightPanel.skylights) :
                 /\ roofScene.rightPanel.skylights[i].position[1] >= 0
                 /\ AtOffsetFromRidge(FALSE, roofScene.rightPanel,
                                      roofScene.rightPanel.skylights[i])

(***************************************************************************)
(* The dimension and pitch solver (C6), under SpecSolver.                  *)
(***************************************************************************)
HalfWidthSquared == (solver.width \div 2) * (solver.width \div 2)

LongerUnlessFlat ==
    /\ solver.panelLength.radicand =
          HalfWidthSquared + (solver.roofHeight * solver.roofHeight)
    /\ solver.panelLength.radicand >= HalfWidthSquared
    /\ solver.panelLength.value >= solver.width \div 2
    /\ (solver.panelLength.radicand = HalfWidthSquared <=> solver.pitch = 0)
    /\ IsExact(solver.panelLength)
          => (solver.panelLength.value = solver.width \div 2 <=> solver.pitch = 0)

\* C6 as stated: for all width >= 0 and pitch >= 0, panelLength >= width/2,
\* and panelLength = width/2 iff pitch = 0.
C6_LongerUnlessFlat_FromZeroWidth ==
    solver.evaluated => LongerUnlessFlat

\* C6 amended: for all width > 0 and pitch >= 0, panelLength >= width/2,
\* and panelLength = width/2 iff pitch = 0 (at width = 0 the panel length is
\* 0 = width/2 at every pitch).  Compared on the squares, and on the roots
\* themselves where the root is rational.
C6_LongerUnlessFlat_PositiveWidth ==
    (solver.evaluated /\ solver.width > 0) => LongerUnlessFlat

\* A pitched roof solved to a rational panel length longer than the half width.
C6_Witness ==
    /\ solver.evaluated
    /\ solver.width = Ft(4)
    /\ solver.pitch = 5
    /\ IsExact(solver.panelLength)
    /\ solver.panelLength.value > solver.width \div 2

(***************************************************************************)
(* Wall framing and gable geometry (C11 - C13, C16, C17), under SpecWall.  *)
(***************************************************************************)
\* The spacing rule as the specification writes it, in exact arithmetic.
RuleSpacing(W) ==
    LET availableWidth == W - Ft(4)
        numSpaces == Max(2, availableWidth \div Ft(8))
    IN Max(Ft(4), availableWidth \div numSpaces)

\* The number of k = 0, 1, 2, ... with -W/2 + 2 + k * spacing <= W/2 - 2.
RuleBeamCount(W) ==
    IF W < Ft(4) THEN 0 ELSE ((W - Ft(4)) \div RuleSpacing(W)) + 1

RuleBeamX(W, k) == -(W \div 2) + Ft(2) + (k * RuleSpacing(W))

BeamXs == [i \in 1..Len(wallProbe.beams) |-> wallProbe.beams[i].x]

\* C11 as stated: the beams of a wall of width W are exactly the positions
\* -W/2 + 2 + k * spacing that are at most W/2 - 2, and for W = 20 they are
\* -8, 0 and 8.
C11_BeamsFollowSpacingRule ==
    wallProbe.rendered =>
        LET W == wallProbe.props.width
        IN /\ Len(wallProbe.beams) = RuleBeamCount(W)
           /\ \A i \in 1..Len(wallProbe.beams) :
                 wallProbe.beams[i].x = RuleBeamX(W, i - 1)
           /\ (W = Ft(20) => BeamXs = <<-Ft(8), 0, Ft(8)>>)

\* The distances between consecutive beams of the rendered wall.
BeamGaps ==
    {wallProbe.beams[i + 1].x - wallProbe.beams[i].x :
        i \in 1..(Len(wallProbe.beams) - 1)}

\* C12 as stated: consecutive beams are at least 4 and at most 8 apart.
C12_SpacingWithinBand ==
    wallProbe.rendered => \A gap \in BeamGaps : Ft(4) <= gap /\ gap <= Ft(8)

ProbeIsGable ==
    /\ wallProbe.props.wallPosition \in {"front", "back"}
    /\ wallProbe.props.roofPitch > 0

\* C13: on a front or back wall with pitch > 0 a beam at x has height
\* height + roofHeight * (1 - |x| / (W/2)), between the eave height and the
\* ridge height and never shorter than a beam farther from the centre; on
\* every other wall each beam has exactly the eave height.
C13_BeamHeightProfile ==
    wallProbe.rendered =>
        LET W == wallProbe.props.width
            h == wallProbe.props.height
            roofHeight == ((W \div 2) * wallProbe.props.roofPitch) \div 12
            beams == wallProbe.beams
        IN \A i \in 1..Len(beams) :
              IF ProbeIsGable
              THEN /\ beams[i].height.den = W \div 2
                   /\ beams[i].height.num =
                         (h * (W \div 2)) + (roofHeight * ((W \div 2) - Abs(beams[i].x)))
                   /\ h * (W \div 2) <= beams[i].height.num
                   /\ beams[i].height.num <= (h + roofHeight) * (W \div 2)
                   /\ \A j \in 1..Len(beams) :
                         Abs(beams[i].x) <= Abs(beams[j].x)
                            => beams[i].height.num >= beams[j].height.num
              ELSE beams[i].height.num = h * beams[i].height.den

\* A back wall 20 wide under pitch 12: the middle beam reaches the ridge
\* height and the end beams are shorter but above the eave.
C13_Witness ==
    /\ wallProbe.rendered
    /\ wallProbe.props.wallPosition = "back"
    /\ wallProbe.props.width = Ft(20)
    /\ wallProbe.props.height = Ft(10)
    /\ wallProbe.props.roofPitch = 12
    /\ Len(wallProbe.beams) = 3
    /\ wallProbe.beams[2].x = 0
    /\ wallProbe.beams[2].height.num = Ft(20) * wallProbe.beams[2].height.den
    /\ wallProbe.beams[1].height.num = Ft(12) * wallProbe.beams[1].height.den
    /\ wallProbe.beams[3].height = wallProbe.beams[1].height

\* C16: a wall is a gable outline exactly when it is the front or back wall
\* and roofPitch > 0, and the outline is then the stated closed polygon; in
\* every other case it is the plain width x height box of eave height.
C16_GableIffFrontBackPitched ==
    wallProbe.rendered =>
        LET w == wallProbe.props.width
            h == wallProbe.props.height
            roofHeight == ((w \div 2) * wallProbe.props.roofPitch) \div 12
            wall == wallProbe.wall
        IN /\ wall.gable <=> ProbeIsGable
           /\ wall.gable =>
                 /\ wall.shape = << <<-(w \div 2), -(h \div 2)>>,
                                    <<w \div 2, -(h \div 2)>>,
                                    <<w \div 2, h \div 2>>,
                                    <<0, (h \div 2) + roofHeight>>,
                                    <<-(w \div 2), h \div 2>>,
                                    <<-(w \div 2), -(h \div 2)>> >>
                 /\ wall.shape[Len(wall.shape)] = wall.shape[1]
           /\ ~wall.gable =>
                 /\ wall.shape = <<>>
                 /\ wall.box = <<w, h, Thickness>>
                 /\ wall.totalHeight = h

\* A left wall that is passed pitch 12 is rendered as the plain box.
C16_Witness ==
    /\ wallProbe.rendered
    /\ wallProbe.props.wallPosition = "left"
    /\ wallProbe.props.roofPitch = 12
    /\ ~wallProbe.wall.gable
    /\ wallProbe.wall.box = <<wallProbe.props.width, wallProbe.props.height, Thickness>>

\* C17: each vertex (x, y) of a gable wall has u = (x + w/2) / w and
\* v = (y + h/2) / (h + roofHeight); both lie in [0, 1], the bottom edge has
\* v = 0 and the apex has (u, v) = (1/2, 1).
C17_GableTextureCoordinates ==
    (wallProbe.rendered /\ wallProbe.wall.gable) =>
        LET w == wallProbe.props.width
            h == wallProbe.props.height
            roofHeight == ((w \div 2) * wallProbe.props.roofPitch) \div 12
            wall == wallProbe.wall
        IN /\ Len(wall.uvs) = Len(wall.shape)
           /\ \A i \in 1..Len(wall.shape) :
                 LET x == wall.shape[i][1]
                     y == wall.shape[i][2]
                     uv == wall.uvs[i]
                 IN /\ uv.u.num = x + (w \div 2) /\ uv.u.den = w
                    /\ uv.v.num = y + (h \div 2) /\ uv.v.den = h + roofHeight
                    /\ 0 <= uv.u.num /\ uv.u.num <= uv.u.den
                    /\ 0 <= uv.v.num /\ uv.v.num <= uv.v.den
                    /\ (y = -(h \div 2) => uv.v.num = 0)
                    /\ (y = (h \div 2) + roofHeight =>
                           /\ 2 * uv.u.num = uv.u.den
                           /\ uv.v.num = uv.v.den)

\* A front gable 29 wide under pitch 5: its fourth vertex, the apex, has
\* (u, v) = (1/2, 1) and its eave corners have v below 1.
C17_Witness ==
    /\ wallProbe.rendered
    /\ wallProbe.props.wallPosition = "front"
    /\ wallProbe.props.width = Ft(29)
    /\ wallProbe.props.roofPitch = 5
    /\ wallProbe.wall.gable
    /\ 2 * wallProbe.wall.uvs[4].u.num = wallProbe.wall.uvs[4].u.den
    /\ wallProbe.wall.uvs[4].v.num = wallProbe.wall.uvs[4].v.den
    /\ wallProbe.wall.uvs[3].v.num < wallProbe.wall.uvs[3].v.den

(***************************************************************************)
(* Wall frames (C14, C15), under SpecRoof.                                 *)
(***************************************************************************)
\* C14: Building places the front wall at (0, h/2, L/2) with yaw 0 and wall
\* width W, the back wall at (0, h/2, -L/2) with yaw pi and width W, the left
\* wall at (-W/2, h/2, 0) with yaw pi/2 and width L, and the right wall at
\* (W/2, h/2, 0) with yaw -pi/2 and width L.
C14_WallFrames ==
    LET W == dimensions.width
        L == dimensions.length
        h == dimensions.height
        Placed(wp, position, yaw, wallWidth) ==
            /\ wallScene[wp].position = position
            /\ wallScene[wp].rotation = <<0, yaw, 0>>
            /\ wallScene[wp].width = wallWidth
            /\ wallScene[wp].height = h
    IN /\ Placed("front", <<0, h \div 2, L \div 2>>, 0, W)
       /\ Placed("back", <<0, h \div 2, -(L \div 2)>>, MathPI, W)
       /\ Placed("left", <<-(W \div 2), h \div 2, 0>>, MathPI \div 2, L)
       /\ Placed("right", <<W \div 2, h \div 2, 0>>, -(MathPI \div 2), L)

\* A 24 x 20 x 10 building: the left wall is 20 wide, at (-12, 5, 0), a
\* quarter turn about y.
C14_Witness ==
    /\ dimensions.width = Ft(24)
    /\ dimensions.length = Ft(20)
    /\ dimensions.height = Ft(10)
    /\ wallScene["left"].position = <<-Ft(12), Ft(5), 0>>
    /\ wallScene["left"].rotation = <<0, 1, 0>>
    /\ wallScene["left"].width = Ft(20)
    /\ wallScene["right"].position = <<Ft(12), Ft(5), 0>>

\* A rotation about the world y axis by yaw quarter turns, as the rotation
\* prop of a group applies it: (x, y, z) goes to
\* (x cos + z sin, y, -x sin + z cos).
RotateY(v, yaw) ==
    CASE yaw = 0 -> v
      [] yaw = 1 -> <<v[3], v[2], -v[1]>>
      [] yaw = MathPI -> <<-v[1], v[2], -v[3]>>
      [] yaw = -1 -> <<-v[3], v[2], v[1]>>

\* The direction that points away from the building interior at each wall.
Outward(wp) ==
    CASE wp = "front" -> <<0, 0, 1>>
      [] wp = "back"  -> <<0, 0, -1>>
      [] wp = "left"  -> <<-1, 0, 0>>
      [] wp = "right" -> <<1, 0, 0>>

WallAxis(wp, axis) == RotateY(axis, wallScene[wp].rotation[2])

\* Whether a direction runs along the width of wall wp.
AlongWidth(wp, v) ==
    IF wp \in {"front", "back"} THEN v \in {<<1, 0, 0>>, <<-1, 0, 0>>}
                                ELSE v \in {<<0, 0, 1>>, <<0, 0, -1>>}

\* C15 as stated: on each of the four walls the wall's yaw takes local +z to
\* the outward direction, keeps local +y up and takes local +x along the
\* wall's width.
C15_LocalZOutward ==
    \A wp \in WallPositions :
        /\ WallAxis(wp, <<0, 0, 1>>) = Outward(wp)
        /\ WallAxis(wp, <<0, 1, 0>>) = <<0, 1, 0>>
        /\ AlongWidth(wp, WallAxis(wp, <<1, 0, 0>>))

\* C15 amended: the yaw takes local +z to the outward direction on the front
\* and back walls and to the inward direction on the left and right walls
\* (+x on the left wall, -x on the right wall); local +y stays up and local
\* +x runs along the wall's width (+x front, -x back, -z left, +z right).
C15_LocalZOutwardOnGableWallsOnly ==
    /\ WallAxis("front", <<0, 0, 1>>) = Outward("front")
    /\ WallAxis("back", <<0, 0, 1>>) = Outward("back")
    /\ WallAxis("left", <<0, 0, 1>>) = <<1, 0, 0>>
    /\ WallAxis("right", <<0, 0, 1>>) = <<-1, 0, 0>>
    /\ WallAxis("front", <<1, 0, 0>>) = <<1, 0, 0>>
    /\ WallAxis("back", <<1, 0, 0>>) = <<-1, 0, 0>>
    /\ WallAxis("left", <<1, 0, 0>>) = <<0, 0, -1>>
    /\ WallAxis("right", <<1, 0, 0>>) = <<0, 0, 1>>
    /\ \A wp \in WallPositions :
          /\ WallAxis(wp, <<0, 1, 0>>) = <<0, 1, 0>>
          /\ AlongWidth(wp, WallAxis(wp, <<1, 0, 0>>))

\* After the building is made 30 wide the left wall, at x = -15, has its
\* local +z pointing to +x, towards the right wall.
C15_Witness ==
    /\ dimensions.width = Ft(30)
    /\ wallScene["left"].position[1] = -Ft(15)
    /\ WallAxis("left", <<0, 0, 1>>) = <<1, 0, 0>>
    /\ WallAxis("back", <<0, 0, 1>>) = <<0, 0, -1>>

(***************************************************************************)
(* Gutters, downspouts and brackets (C18 - C20), under SpecGutter.         *)
(***************************************************************************)
\* The world x and z intervals a gutter run occupies: its profile lies across
\* the mesh's local x and it is extruded from local z = 0 to z = depth.
ExtrusionSpanX(run) ==
    LET x == run.position[1]
        yaw == run.rotation[2]
    IN CASE yaw = 1  -> <<x, x + run.depth>>
         [] yaw = -1 -> <<x - run.depth, x>>
         [] OTHER    -> <<x - (run.profileWidth \div 2), x + (run.profileWidth \div 2)>>

ExtrusionSpanZ(run) ==
    LET z == run.position[3]
        yaw == run.rotation[2]
    IN CASE yaw = 0      -> <<z, z + run.depth>>
         [] yaw = MathPI -> <<z - run.depth, z>>
         [] OTHER        -> <<z - (run.profileWidth \div 2), z + (run.profileWidth \div 2)>>

\* Within 0.5 below the eave, the top of the wall.
AtEaveHeight(y) ==
    /\ gutterProbe.props.height - (Unit \div 2) <= y
    /\ y <= gutterProbe.props.height

\* C18 as stated: the front and the back gutter run each cover x from
\* -width/2 to +width/2, at eave height, the front run outside the front
\* wall plane z = length/2 and the back run outside z = -length/2.
C18_GutterRunsSpanWidth ==
    gutterProbe.rendered =>
        LET w == gutterProbe.props.width
            L == gutterProbe.props.length
            front == gutterProbe.gutter.frontGutter
            back  == gutterProbe.gutter.backGutter
        IN /\ ExtrusionSpanX(front) = <<-(w \div 2), w \div 2>>
           /\ ExtrusionSpanX(back)  = <<-(w \div 2), w \div 2>>
           /\ AtEaveHeight(front.position[2])
           /\ AtEaveHeight(back.position[2])
           /\ ExtrusionSpanZ(front)[1] >= L \div 2
           /\ ExtrusionSpanZ(back)[2] <= -(L \div 2)

\* The ends of a downspout: a cylinder about the vertical axis through its
\* position.
DownspoutTop(d) == d.position[2] + (d.height \div 2)

DownspoutBottom(d) == d.position[2] - (d.height \div 2)

\* The four corners of the gutter layout, in the order front left, front
\* right, back left, back right.
GutterCorners ==
    LET w == gutterProbe.props.width
        frontZ == gutterProbe.gutter.frontGutter.position[3]
        backZ  == gutterProbe.gutter.backGutter.position[3]
    IN << <<-(w \div 2), frontZ>>, <<w \div 2, frontZ>>,
          <<-(w \div 2), backZ>>, <<w \div 2, backZ>> >>

DownspoutsAtCorners ==
    /\ Len(gutterProbe.gutter.downspouts) = 4
    /\ \A i \in 1..4 :
          LET d == gutterProbe.gutter.downspouts[i]
          IN <<d.position[1], d.position[3]>> = GutterCorners[i]

\* C19 as stated: there are exactly four downspouts, one at each corner, and
\* each runs from the eave down to about mid-height of the wall (here: ends
\* between a quarter and three quarters of the height).
C19_DownspoutsEaveToMidHeight ==
    gutterProbe.rendered =>
        /\ DownspoutsAtCorners
        /\ \A i \in 1..Len(gutterProbe.gutter.downspouts) :
              LET d == gutterProbe.gutter.downspouts[i]
                  h == gutterProbe.props.height
              IN /\ AtEaveHeight(DownspoutTop(d))
                 /\ h <= 4 * DownspoutBottom(d)
                 /\ 4 * DownspoutBottom(d) <= 3 * h

\* C19 amended: there are exactly four downspouts, one at each corner
\* (x = +/-width/2 at the z of the front and of the back gutter run); each is
\* a vertical run of length height - 1 centred at mid-height, from 0.5 below
\* the eave down to 0.5 above the ground.
C19_DownspoutsEaveToGround ==
    gutterProbe.rendered =>
        /\ DownspoutsAtCorners
        /\ \A i \in 1..Len(gutterProbe.gutter.downspouts) :
              LET d == gutterProbe.gutter.downspouts[i]
                  h == gutterProbe.props.height
              IN /\ d.height = h - Ft(1)
                 /\ 2 * d.position[2] = h
                 /\ DownspoutTop(d) = h - (Unit \div 2)
                 /\ DownspoutBottom(d) = Unit \div 2

\* A 40 x 60 x 14 building: the back right downspout stands at x = 20 behind
\* the back wall and runs from y = 13.5 down to y = 0.5.
C19_Witness ==
    /\ gutterProbe.rendered
    /\ gutterProbe.props.width = Ft(40)
    /\ gutterProbe.props.length = Ft(60)
    /\ gutterProbe.props.height = Ft(14)
    /\ gutterProbe.gutter.downspouts[4].position[1] = Ft(20)
    /\ gutterProbe.gutter.downspouts[4].position[3] < -Ft(30)
    /\ DownspoutTop(gutterProbe.gutter.downspouts[4]) = Ft(14) - (Unit \div 2)
    /\ DownspoutBottom(gutterProbe.gutter.downspouts[4]) = Unit \div 2

BracketXs(brackets) == [i \in 1..Len(brackets) |-> brackets[i].position[1]]

\* C20: each gutter run has its brackets exactly at x = -width/2 + 8 * i for
\* i = 0 .. floor(width/8); each lies within [-width/2, width/2], so the
\* guard rejects none; consecutive brackets are 8 apart; the front and back
\* runs have the same bracket x positions.
C20_BracketsEveryEight ==
    gutterProbe.rendered =>
        LET w == gutterProbe.props.width
            front == gutterProbe.gutter.frontBrackets
            back  == gutterProbe.gutter.backBrackets
        IN /\ Len(front) = (w \div Ft(8)) + 1
           /\ \A i \in 1..Len(front) :
                 /\ front[i].key = i - 1
                 /\ front[i].position[1] = -(w \div 2) + ((i - 1) * Ft(8))
                 /\ -(w \div 2) <= front[i].position[1]
                 /\ front[i].position[1] <= w \div 2
           /\ \A i \in 1..(Len(front) - 1) :
                 front[i + 1].position[1] - front[i].position[1] = Ft(8)
           /\ BracketXs(back) = BracketXs(front)

\* A run 24 wide has four brackets, the last one on the wall's end, x = 12.
C20_Witness ==
    /\ gutterProbe.rendered
    /\ gutterProbe.props.width = Ft(24)
    /\ BracketXs(gutterProbe.gutter.frontBrackets) = <<-Ft(12), -Ft(4), Ft(4), Ft(12)>>
    /\ BracketXs(gutterProbe.gutter.backBrackets) = <<-Ft(12), -Ft(4), Ft(4), Ft(12)>>

(***************************************************************************)
(* The beam loop's range and symmetry (C27, C28), under SpecWall.          *)
(***************************************************************************)
FirstBeamX(W) == -(W \div 2) + Ft(2)

LastBeamX(W) == (W \div 2) - Ft(2)

\* C27: for every wall width, widths under 4 included, the beam loop ends
\* with finitely many positions (none under 4), every position lies in
\* [-W/2 + 2, W/2 - 2], the positions increase strictly, and from width 4 on
\* the first beam is exactly at -W/2 + 2; for the exact sums and for the
\* doubles the loop computes.
C27_BeamLoopTerminatesInRange ==
    wallProbe.rendered =>
        LET W == wallProbe.props.width
            beams == wallProbe.beams
            firstDbl == DblFromHalves(Halves(FirstBeamX(W)))
            lastDbl == DblFromHalves(Halves(LastBeamX(W)))
        IN /\ Len(beams) <= (W \div Ft(4)) + 1
           /\ (W < Ft(4) => beams = <<>>)
           /\ \A i \in 1..Len(beams) :
                 /\ FirstBeamX(W) <= beams[i].x
                 /\ beams[i].x <= LastBeamX(W)
                 /\ DblLessEq(firstDbl, beams[i].xDbl)
                 /\ DblLessEq(beams[i].xDbl, lastDbl)
           /\ \A i \in 1..(Len(beams) - 1) :
                 /\ beams[i].x < beams[i + 1].x
                 /\ DblLessEq(beams[i].xDbl, beams[i + 1].xDbl)
                 /\ beams[i].xDbl # beams[i + 1].xDbl
           /\ (W >= Ft(4) =>
                 /\ beams # <<>>
                 /\ beams[1].x = FirstBeamX(W)
                 /\ beams[1].xDbl = firstDbl)

\* A wall of width 29, whose spacing 25/3 is not a double, has been framed.
C27_Witness ==
    /\ wallProbe.rendered
    /\ wallProbe.props.width = Ft(29)
    /\ Len(wallProbe.beams) = 3
    /\ wallProbe.beams[1].x = -Ft(12) - (Unit \div 2)

\* C28 as stated: from width 4 on, x is a beam position exactly when -x is,
\* so the last beam stands at W/2 - 2 and mirrored beams have equal heights.
C28_BeamsMirrorSymmetric ==
    (wallProbe.rendered /\ wallProbe.props.width >= Ft(4)) =>
        LET W == wallProbe.props.width
            beams == wallProbe.beams
        IN /\ {beams[i].x : i \in 1..Len(beams)}
                 = {-beams[i].x : i \in 1..Len(beams)}
           /\ beams[Len(beams)].x = LastBeamX(W)
           /\ \A i, j \in 1..Len(beams) :
                 beams[i].x = -beams[j].x => beams[i].height = beams[j].height

(***************************************************************************)
(* Vertical beams in world space (C22), under SpecWall: the wall's group   *)
(* position, then the beam's group, then the web's box about its centre.   *)
(***************************************************************************)
\* World y of the web's centre, and of its two ends over the denominator
\* 2 * den of the half height.
WebCentreY(steel) ==
    wallProbe.wall.position[2] + steel.position[2] + steel.web.position[2]

WebBottomY(steel) ==
    LET h == steel.web.box.height
    IN [num |-> (2 * h.den * WebCentreY(steel)) - h.num, den |-> 2 * h.den]

WebTopY(steel) ==
    LET h == steel.web.box.height
    IN [num |-> (2 * h.den * WebCentreY(steel)) + h.num, den |-> 2 * h.den]

\* height + roofHeight * (1 - |x| / (W/2)), over the denominator 2 * (W/2)
RooflineY(props, x) ==
    LET half == props.width \div 2
        roofHeight == (half * props.roofPitch) \div 12
    IN [num |-> 2 * ((props.height * half) + (roofHeight * (half - Abs(x)))),
        den |-> 2 * half]

\* C22 as stated: on a gable wall every vertical beam has its bottom on the
\* ground, world y = 0, and its top on the sloped edge above it, world
\* y = height + roofHeight * (1 - |x| / (W/2)).
C22_GableBeamsGroundToRoofline ==
    (wallProbe.rendered /\ ProbeIsGable) =>
        \A i \in 1..Len(wallProbe.steelBeams) :
            LET steel == wallProbe.steelBeams[i]
            IN /\ WebBottomY(steel).num = 0
               /\ WebTopY(steel) = RooflineY(wallProbe.props, steel.position[1])

(***************************************************************************)
(* The gable outline under the roof (C26), under SpecRoof.                 *)
(***************************************************************************)
\* A point of a wall's outline in world coordinates, as seen along the
\* building's length (world x and y): the wall group's rotation, then its
\* position.
OutlinePointWorld(wp, p) ==
    LET r == RotateY(<<p[1], p[2], 0>>, wallScene[wp].rotation[2])
    IN <<wallScene[wp].position[1] + r[1], wallScene[wp].position[2] + r[2]>>

GableApex(wp) == OutlinePointWorld(wp, wallScene[wp].shape[4])

GableEaveCorners(wp) ==
    {OutlinePointWorld(wp, wallScene[wp].shape[3]),
     OutlinePointWorld(wp, wallScene[wp].shape[5])}

RidgeWorld ==
    <<roofScene.position[1] + roofScene.ridgeCap.position[1],
      roofScene.position[2] + roofScene.ridgeCap.position[2]>>

\* The ends of a panel's centreline at the ridge, in world coordinates.
LeftInnerEdgeWorld ==
    PanelPointWorld(roofScene.leftPanel, HalfPanel(roofScene.leftPanel), 0)

RightInnerEdgeWorld ==
    PanelPointWorld(roofScene.rightPanel, -HalfPanel(roofScene.rightPanel), 0)

\* C26: the apex of each gable is on the roof's ridge line, world x = 0 and
\* y = height + roofHeight, the y at which Roof centres its ridge cap; the
\* gable's eave corners are (-width/2, height) and (width/2, height), the
\* outer ends of the roof panels' centrelines, whose inner ends are at the
\* apex: each sloped gable edge runs along the centreline of the panel above.
C26_GableUnderRoof ==
    \A wp \in {"front", "back"} :
        wallScene[wp].gable =>
            /\ GableApex(wp) = <<0, dimensions.height + buildingScene.roofHeight>>
            /\ GableApex(wp) = RidgeWorld
            /\ GableEaveCorners(wp) =
                  {<<-(dimensions.width \div 2), dimensions.height>>,
                   <<dimensions.width \div 2, dimensions.height>>}
            /\ RoofExact =>
                  /\ GableEaveCorners(wp) = {LeftOuterEdge, RightOuterEdge}
                  /\ LeftInnerEdgeWorld = GableApex(wp)
                  /\ RightInnerEdgeWorld = GableApex(wp)

\* A 24 wide building at pitch 9: the back gable's apex is 9 above the eave.
C26_Witness ==
    /\ dimensions.width = Ft(24)
    /\ dimensions.roofPitch = 9
    /\ wallScene["back"].gable
    /\ RoofExact
    /\ GableApex("back") = <<0, dimensions.height + Ft(9)>>
    /\ LeftOuterEdge \in GableEaveCorners("back")

(***************************************************************************)
(* Feature boxes against the wall solids (C23), under SpecFeatures.        *)
(***************************************************************************)
\* The world axis along a wall's normal: z for front and back, x for the
\* side walls.
NormalAxis(wp) == IF wp \in {"front", "back"} THEN 3 ELSE 1

\* The two faces of a wall's solid across its thickness, in the wall's own
\* frame: the box is centred on local z = 0, the extrusion starts there.
WallSolidLocalZ(wall) ==
    IF wall.gable THEN {0, Thickness}
    ELSE {-(wall.box[3] \div 2), wall.box[3] \div 2}

\* The same faces as world coordinates along the wall's normal.
WallFaces(wp) ==
    {wallScene[wp].position[NormalAxis(wp)]
        + RotateY(<<0, 0, lz>>, wallScene[wp].rotation[2])[NormalAxis(wp)] :
            lz \in WallSolidLocalZ(wallScene[wp])}

\* The front and back faces of a feature's box, likewise.
FeatureFaces(i) ==
    LET wp == features[i].position.wallPosition
        half == featureScene[i].dimensions[3] \div 2
    IN {featureScene[i].position[NormalAxis(wp)]
           + RotateY(<<0, 0, lz>>, featureScene[i].rotation[2])[NormalAxis(wp)] :
               lz \in {-half, half}}

\* C23 as stated: no face of a feature's box lies in the plane of a face of
\* the solid of the wall it is on, neither on the outer nor on the inner
\* side.
C23_NoCoplanarFaces ==
    \A i \in 1..Len(features) :
        FeatureFaces(i) \cap WallFaces(features[i].position.wallPosition) = {}

(***************************************************************************)
(* Skylight meshes in their panel's frame (C24, C25), under SpecRoof.  In  *)
(* that frame x runs along the slope, y along the panel's normal (the      *)
(* panel's box is panelLength x 0.2 x length) and z along the building.    *)
(***************************************************************************)
PanelMeshes ==
    {roofScene.leftPanel.skylights[i] : i \in 1..Len(roofScene.leftPanel.skylights)}
    \cup
    {roofScene.rightPanel.skylights[i] : i \in 1..Len(roofScene.rightPanel.skylights)}

\* C24 as stated: every skylight lies flat in its panel's plane: its centre
\* stays at panel-local y = 0 whatever its yOffset, the yOffset moves it
\* along the panel (local z), and its thin 0.2 dimension is the one along
\* the panel's normal (local y).
C24_SkylightFlatInPanel ==
    \A mesh \in PanelMeshes :
        /\ mesh.position[2] = 0
        /\ mesh.position[3] = mesh.key[3]
        /\ mesh.box[2] = Thickness

\* C25 as stated: within each panel group no two skylight elements have the
\* same key, also when two skylights have the same xOffset and yOffset.
C25_UniqueKeysPerPanel ==
    \A panel \in {roofScene.leftPanel, roofScene.rightPanel} :
        \A i, j \in 1..Len(panel.skylights) :
            i # j => panel.skylights[i].key # panel.skylights[j].key

(***************************************************************************)
(* Alignment as an observer outside the wall sees it (C29), under          *)
(* SpecFeatures.                                                           *)
(***************************************************************************)
\* The sign of the along-wall coordinate (x on front and back, z on the side
\* walls) that points to the right of an observer who stands outside the
\* wall and faces it: +x at the front, -x at the back, +z at the left wall,
\* -z at the right wall.
ObserverRight(wp) ==
    CASE wp = "front" -> 1
      [] wp = "back"  -> -1
      [] wp = "left"  -> 1
      [] wp = "right" -> -1

\* The along-wall coordinate of the wall's end on that observer's left.
ObserverLeftEnd(wp, wallWidth) == -(ObserverRight(wp) * (wallWidth \div 2))

OppositeWall(wp) ==
    CASE wp = "front" -> "back"
      [] wp = "back"  -> "front"
      [] wp = "left"  -> "right"
      [] wp = "right" -> "left"

\* C29: with alignment 'left' the feature's left edge, as the outside
\* observer sees it, is xOffset to the right of the wall's left end (flush
\* with it at xOffset 0: front x = -W/2, back x = +W/2, left wall z = -L/2,
\* right wall z = +L/2); 'right' is the mirror image, from the wall's right
\* end; and the same alignment, width and xOffset on the opposite wall give
\* the negated along-wall coordinate.
C29_AlignmentSeenFromOutside ==
    \A i \in 1..Len(features) :
        LET f == features[i]
            wp == f.position.wallPosition
            right == ObserverRight(wp)
            leftEnd == ObserverLeftEnd(wp, WallWidthOf(f))
            leftEdge == AlongOf(i) - (right * (f.width \div 2))
            rightEdge == AlongOf(i) + (right * (f.width \div 2))
        IN /\ f.position.alignment = "left"
                => leftEdge = leftEnd + (right * f.position.xOffset)
           /\ f.position.alignment = "right"
                => rightEdge = -leftEnd - (right * f.position.xOffset)
           /\ AlongWall([f.position EXCEPT !.wallPosition = OppositeWall(wp)],
                        f.width, dimensions.width \div 2, dimensions.length \div 2)
                 = -AlongOf(i)

\* A feature aligned left on the right wall, 10 from the wall's end at
\* z = +L/2.
C29_Witness ==
    /\ Len(features) = 1
    /\ features[1].position.wallPosition = "right"
    /\ features[1].position.alignment = "left"
    /\ features[1].position.xOffset = Ft(10)
    /\ featureScene[1].position[3] + (features[1].width \div 2)
          = (dimensions.length \div 2) - Ft(10)

(***************************************************************************)
(* useMemo.  A cell holds the dependency list its value was computed       *)
(* under; a render keeps the cell when the new list equals the held one    *)
(* element by element (Object.is) and recomputes otherwise.  Numbers and   *)
(* strings are equal when their values are, an object only to itself.  The *)
(* store replaces an object when it changes it, so an object is its value  *)
(* and a copy number: equal objects have equal values, and one value may   *)
(* belong to several objects.  A geometry made by the geometry memo is a   *)
(* new object at each computation; null is equal to null.  Before the      *)
(* mount a cell holds no dependency list, which equals none of the lists   *)
(* in the code.                                                            *)
(***************************************************************************)
NoCell == [deps |-> <<>>, value |-> <<>>]

useMemo(cell, deps, fresh) ==
    IF cell.deps = deps THEN cell ELSE [deps |-> deps, value |-> fresh]

\* A memo whose computation makes a new object: object tells the object of
\* one computation from that of the computation before it.
NoObjectCell == [deps |-> <<>>, value |-> <<>>, object |-> 0]

useMemoObject(cell, deps, fresh) ==
    IF cell.deps = deps THEN cell
    ELSE [deps |-> deps, value |-> fresh, object |-> 1 - cell.object]

Roof_roofHeightDeps_widthOnly(props) == <<props.width>>

Roof_roofHeightDeps(props) == <<props.width, props.pitch>>

Roof_materialsDeps(props) == <<props.color, props.length>>

\* What the two roof materials are made from: the fill colour, the white
\* case of the rib gradient and of the material, and the texture's repeat.
Roof_materials(color, length) ==
    [fillStyle |-> color, isWhite |-> color = "#FFFFFF",
     repeat |-> <<4, length \div 2>>]

Wall_wallMaterialDeps(props) == <<props.color, props.width, props.height>>

Wall_wallMaterial(color, width, height) ==
    [fillStyle |-> color, isLight |-> color \in {"#FFFFFF", "#E5E7EB"},
     repeat |-> <<width \div 2, height \div 2>>]

Wall_geometryDeps(props) ==
    <<props.width, props.height, props.wallPosition, props.roofPitch>>

\* The geometry useMemo's result; no geometry (null) is the empty outline.
Wall_geometry(props) ==
    IF Wall_isGable(props.wallPosition, props.roofPitch)
    THEN LET roofHeight == Wall_roofHeight(props.width, props.roofPitch)
         IN [geometry |-> Wall_shape(props.width, props.height, roofHeight),
             totalHeight |-> props.height + roofHeight]
    ELSE [geometry |-> <<>>, totalHeight |-> props.height]

\* The geometry as a dependency: the object, or null.
GeometryObject(cell) ==
    IF cell.value.geometry = <<>> THEN <<"null">>
    ELSE <<"ExtrudeGeometry", cell.object>>

Wall_wallGeometryDeps(geometryCell, props) ==
    <<GeometryObject(geometryCell), props.width, props.height,
      geometryCell.value.totalHeight>>

\* The texture coordinates the wallGeometry useMemo writes into the geometry.
Wall_wallGeometry(geometry, width, height, totalHeight) ==
    IF geometry # <<>> THEN Wall_uvs(geometry, width, height, totalHeight)
    ELSE <<>>

Wall_beamsDeps_withoutPitch(props) ==
    <<props.width, props.height, props.wallPosition>>

Wall_beamsDeps(props) ==
    <<props.width, props.height, props.wallPosition, props.roofPitch>>

WallFeature_deps(feature, buildingDimensions) == <<feature, buildingDimensions>>

(***************************************************************************)
(* Roof, one Wall and one WallFeature mounted under changing inputs.  The  *)
(* inputs are what Building reads from the store: the dimensions object,   *)
(* the two colours, a feature object and the skylights; wallPosition says  *)
(* which of Building's four Walls is watched.  first is the layout         *)
(* rendered at mount and the inputs it was rendered from; away says        *)
(* whether the inputs have differed from those since.                      *)
(***************************************************************************)
MemoColors == {"#FFFFFF", "#1E3A8A"}

MemoPitches == {0, 4}

MemoCopies == {0, 1}

MemoDimensions ==
    [width : Widths, length : Lengths, height : Heights, roofPitch : MemoPitches]

MemoFeatures ==
    {[id |-> 1, type |-> "door", width |-> Ft(4), height |-> Ft(7),
      position |-> [wallPosition |-> wp, xOffset |-> Ft(10),
                    yOffset |-> Ft(3), alignment |-> "left"]] :
        wp \in {"front", "left"}}

MemoSkylights ==
    {<<>>, <<[width |-> Ft(2), length |-> Ft(4), xOffset |-> Ft(3), yOffset |-> 0]>>}

MemoInputs ==
    [dimensions : [value : MemoDimensions, copy : MemoCopies],
     color : MemoColors,
     roofColor : MemoColors,
     wallPosition : WallPositions,
     feature : [value : MemoFeatures, copy : MemoCopies],
     skylights : MemoSkylights]

\* The inputs a mount starts from.
MemoFirstInputs ==
    {in \in MemoInputs :
        /\ in.dimensions = [value |-> InitialDimensions, copy |-> 0]
           \/ in.dimensions = [value |-> [width |-> Ft(24), length |-> Ft(20),
                                          height |-> Ft(10), roofPitch |-> 0],
                               copy |-> 0]
        /\ in.color = "#FFFFFF"
        /\ in.roofColor = "#1E3A8A"
        /\ in.wallPosition = "front"
        /\ in.feature.copy = 0
        /\ in.feature.value.position.wallPosition = "front"
        /\ in.skylights = <<>>}

RoofProps(in) ==
    [width |-> in.dimensions.value.width, length |-> in.dimensions.value.length,
     height |-> in.dimensions.value.height, pitch |-> in.dimensions.value.roofPitch,
     color |-> in.roofColor, skylights |-> in.skylights]

WallProps(in) ==
    [color |-> in.color] @@ Building_wallProps(in.dimensions.value, in.wallPosition)

\* One render of the three components: each useMemo in the order of the code.
RenderMemos(cells, in) ==
    LET roof == RoofProps(in)
        wall == WallProps(in)
        geometry == useMemoObject(cells.geometry, Wall_geometryDeps(wall),
                                  Wall_geometry(wall))
    IN [roofHeight |->
            useMemo(cells.roofHeight, Roof_roofHeightDeps(roof),
                    Roof_roofHeight(roof.width, roof.pitch)),
        roofMaterials |->
            useMemo(cells.roofMaterials, Roof_materialsDeps(roof),
                    Roof_materials(roof.color, roof.length)),
        wallMaterial |->
            useMemo(cells.wallMaterial, Wall_wallMaterialDeps(wall),
                    Wall_wallMaterial(wall.color, wall.width, wall.height)),
        geometry |-> geometry,
        wallGeometry |->
            useMemo(cells.wallGeometry, Wall_wallGeometryDeps(geometry, wall),
                    Wall_wallGeometry(geometry.value.geometry, wall.width,
                                      wall.height, geometry.value.totalHeight)),
        beams |->
            useMemo(cells.beams, Wall_beamsDeps(wall), Wall_beams(wall)),
        feature |->
            useMemo(cells.feature, WallFeature_deps(in.feature, in.dimensions),
                    WallFeature(in.feature.value, in.dimensions.value))]

MountMemos(in) ==
    RenderMemos([name \in {"roofHeight", "roofMaterials", "wallMaterial",
                           "geometry", "wallGeometry", "beams", "feature"}
                    |-> IF name = "geometry" THEN NoObjectCell ELSE NoCell], in)

\* The positions, rotations and sizes on screen: what the components return
\* from their props and their memoized values.
Layout(cells, in) ==
    LET roof == RoofProps(in)
        wall == WallProps(in)
    IN [roof |-> Roof_render(roof.width, roof.length, roof.height,
                             cells.roofHeight.value, roof.skylights),
        wall |-> [position |-> wall.position, rotation |-> wall.rotation,
                  shape |-> cells.geometry.value.geometry,
                  uvs |-> cells.wallGeometry.value,
                  box |-> IF cells.wallGeometry.value # <<>> THEN <<>>
                          ELSE <<wall.width, wall.height, Thickness>>,
                  beams |-> [i \in 1..Len(cells.beams.value) |->
                                createSteelBeam(wall.wallPosition,
                                                cells.beams.value[i].x,
                                                cells.beams.value[i].height)]],
        feature |-> cells.feature.value,
        gutter |-> RainGutter([source |-> "RainGutter.tsx", width |-> roof.width,
                               length |-> roof.length, height |-> roof.height,
                               roofPitch |-> roof.pitch])]

\* The Building value of the inputs: what the layout is a function of.
BuildingValue(in) ==
    [dimensions |-> in.dimensions.value, feature |-> in.feature.value,
     skylights |-> in.skylights, wallPosition |-> in.wallPosition]

InitMemo ==
    /\ SceneAtRest
    /\ wallProbe = IdleWallProbe
    /\ gutterProbe = IdleGutterProbe
    /\ \E in \in MemoFirstInputs :
          memoProbe = [mounted |-> TRUE, inputs |-> in, cells |-> MountMemos(in),
                       first |-> [inputs |-> in,
                                  layout |-> Layout(MountMemos(in), in)],
                       away |-> FALSE]

\* The store or the parent hands down new inputs and the components render.
Rerender(in) ==
    /\ memoProbe.mounted
    /\ in # memoProbe.inputs
    /\ memoProbe' =
          [memoProbe EXCEPT
              !.inputs = in,
              !.cells = RenderMemos(memoProbe.cells, in),
              !.away = @ \/ BuildingValue(in) # BuildingValue(memoProbe.first.inputs)]
    /\ UNCHANGED <<dimensions, features, skylights, featureScene, wallScene,
                   roofScene, buildingScene, solver, wallProbe, gutterProbe>>

ChangeDimensions(field, value, copy) ==
    Rerender([memoProbe.inputs EXCEPT
                 !.dimensions = [value |-> [@.value EXCEPT ![field] = value],
                                 copy |-> copy]])

ChangeColor(color) == Rerender([memoProbe.inputs EXCEPT !.color = color])

ChangeRoofColor(color) == Rerender([memoProbe.inputs EXCEPT !.roofColor = color])

ChangeWallPosition(wallPosition) ==
    Rerender([memoProbe.inputs EXCEPT !.wallPosition = wallPosition])

ChangeFeature(feature) == Rerender([memoProbe.inputs EXCEPT !.feature = feature])

ChangeSkylights(list) == Rerender([memoProbe.inputs EXCEPT !.skylights = list])

NextMemo ==
    \/ \E w \in Widths, c \in MemoCopies : ChangeDimensions("width", w, c)
    \/ \E l \in Lengths, c \in MemoCopies : ChangeDimensions("length", l, c)
    \/ \E h \in Heights, c \in MemoCopies : ChangeDimensions("height", h, c)
    \/ \E p \in MemoPitches, c \in MemoCopies : ChangeDimensions("roofPitch", p, c)
    \/ \E color \in MemoColors : ChangeColor(color)
    \/ \E color \in MemoColors : ChangeRoofColor(color)
    \/ \E wp \in WallPositions : ChangeWallPosition(wp)
    \/ \E f \in [value : MemoFeatures, copy : MemoCopies] : ChangeFeature(f)
    \/ \E list \in MemoSkylights : ChangeSkylights(list)

SpecMemo == InitMemo /\ [][NextMemo]_vars

(***************************************************************************)
(* Memoized values against fresh ones (C30) and the layout as a function   *)
(* of the Building value (C21), under SpecMemo.                            *)
(***************************************************************************)
\* C30: after any sequence of input changes every memoized value equals the
\* value a fresh computation from the current inputs gives: Roof's
\* roofHeight and materials, Wall's material, gable geometry, texture
\* coordinates and beams, WallFeature's position, rotation and dimensions.
C30_MemosNeverStale ==
    memoProbe.mounted =>
        LET in == memoProbe.inputs
            cells == memoProbe.cells
            roof == RoofProps(in)
            wall == WallProps(in)
            geometry == Wall_geometry(wall)
        IN /\ cells.roofHeight.value = Roof_roofHeight(roof.width, roof.pitch)
           /\ cells.roofMaterials.value = Roof_materials(roof.color, roof.length)
           /\ cells.wallMaterial.value
                 = Wall_wallMaterial(wall.color, wall.width, wall.height)
           /\ cells.geometry.value = geometry
           /\ cells.wallGeometry.value
                 = Wall_wallGeometry(geometry.geometry, wall.width, wall.height,
                                     geometry.totalHeight)
           /\ cells.beams.value = Wall_beams(wall)
           /\ cells.feature.value
                 = WallFeature(in.feature.value, in.dimensions.value)

\* The pitch has changed since the mount while colour and length have not:
\* roofHeight was recomputed, the roof materials are the ones made at mount.
C30_Witness ==
    /\ memoProbe.mounted
    /\ memoProbe.inputs.dimensions.value.roofPitch
          # memoProbe.first.inputs.dimensions.value.roofPitch
    /\ memoProbe.cells.roofHeight.deps
          # Roof_roofHeightDeps(RoofProps(memoProbe.first.inputs))
    /\ memoProbe.cells.roofHeight.value
          = Roof_roofHeight(memoProbe.inputs.dimensions.value.width,
                            memoProbe.inputs.dimensions.value.roofPitch)
    /\ memoProbe.cells.roofMaterials.deps
          = Roof_materialsDeps(RoofProps(memoProbe.first.inputs))

\* C21: whenever dimensions, feature and skylights are again what they were
\* at the first evaluation, the layout (every position, rotation and size of
\* roof, wall, beams, feature and gutter) is the one rendered then, whatever
\* was rendered in between.
C21_LayoutDeterminedByBuilding ==
    (memoProbe.mounted
        /\ BuildingValue(memoProbe.inputs) = BuildingValue(memoProbe.first.inputs))
        => Layout(memoProbe.cells, memoProbe.inputs) = memoProbe.first.layout

\* The Building value is back at its first value after other values were
\* rendered, carried by other objects than at the mount.
C21_Witness ==
    /\ memoProbe.mounted
    /\ memoProbe.away
    /\ BuildingValue(memoProbe.inputs) = BuildingValue(memoProbe.first.inputs)
    /\ memoProbe.inputs.dimensions.copy # memoProbe.first.inputs.dimensions.copy
    /\ memoProbe.inputs.color # memoProbe.first.inputs.color
    /\ Layout(memoProbe.cells, memoProbe.inputs) = memoProbe.first.layout

=============================================================================
